---- MODULE Spec2Model ----
(***************************************************************************)
(* Workflow planning and execution core of AfundiOS:                       *)
(*   backend/core/agents/planner.py       Task, Workflow, PlannerAgent     *)
(*   backend/core/agents/orchestrator.py  AgentOrchestrator                *)
(*   backend/api/agents.py                the run-existing entry point     *)
(*                                                                         *)
(* One workflow is followed from planning through its execution attempts,  *)
(* cancellation and retries.  An execution attempt is modelled step by     *)
(* step (readiness computation, dispatch, handler outcome, review) so that *)
(* the intermediate states of a run are states of the model.               *)
(* The planner's workflows map keeps the ids of every workflow it planned.  *)
(***************************************************************************)
EXTENDS Integers, Sequences, FiniteSets, TLC

VARIABLES
    store,          \* whose workflows map holds the workflow: "none", "own"
                    \* (AgentOrchestrator.planner) or "api" (api/agents.py _planner)
    workflows,      \* PlannerAgent.workflows of that planner: workflow id ->
                    \* the task ids of the stored workflow, in task_order
    tasks,          \* Workflow.tasks: task id -> Task
    task_order,     \* Workflow.task_order
    wf_status,      \* Workflow.status
    estimated_total_duration,   \* Workflow.estimated_total_duration
    task_counter,   \* PlannerAgent._task_counter of the planner that planned
    pc,             \* position of the execution attempt: "idle", "loop",
                    \* "dispatch", "handler", "review", or "done" when
                    \* _execute_workflow_tasks has just returned
    entry,          \* entry point of the attempt in flight or last finished
    executed,       \* _execute_sequential: executed
    queue,          \* _execute_sequential: rest of ready_not_executed
    cur,            \* _execute_task: the task being executed (0: none)
    result,         \* the ExecutionResult of the attempt (its reviews are
                    \* kept only under SpecReview)
    executions,     \* AgentOrchestrator.executions[workflow.id] (or NoResult)
    attempts,       \* number of execution attempts started
    raises,         \* number of exceptions raised by handlers and collaborators
    last_call,      \* the last entry point called and what it returned
    status_writer   \* how the last write of a Task.status was made

vars == << store, workflows, tasks, task_order, wf_status, estimated_total_duration,
           task_counter, pc, entry, executed, queue, cur, result, executions,
           attempts, raises, last_call, status_writer >>

-----------------------------------------------------------------------------
(* Bounds of the model *)

\* a goal contains at most this many of the planner's keywords
MaxGoalWords == 2
\* at most this many exceptions are raised by handlers and collaborators
MaxRaises == 1
\* at most this many execution attempts are started on the workflow
MaxAttempts == 2
\* a directly constructed Workflow has at most this many tasks
MaxGraphTasks == 2

-----------------------------------------------------------------------------
(* planner.py: TaskStatus, TaskPriority *)

Null == "null"

PENDING == "pending"
READY == "ready"
IN_PROGRESS == "in_progress"
COMPLETED == "completed"
FAILED == "failed"
BLOCKED == "blocked"

TaskStatus == {PENDING, READY, IN_PROGRESS, COMPLETED, FAILED, BLOCKED}

TaskPriority == {"low", "medium", "high", "critical"}

\* priority_order giving every priority the default rank
priority_order_unranked(p) == 2

\* Workflow.get_ready_tasks: priority_order
priority_order(p) ==
    CASE p = "critical" -> 0
      [] p = "high" -> 1
      [] p = "medium" -> 2
      [] p = "low" -> 3
      [] OTHER -> 2

\* Task(...): a new task with the dataclass defaults
Task(id, action, priority, duration) ==
    [ id |-> id, action |-> action, priority |-> priority,
      dependencies |-> << >>, status |-> PENDING,
      estimated_duration_seconds |-> duration,
      started_at |-> Null, completed_at |-> Null,
      result |-> Null, error |-> Null ]

-----------------------------------------------------------------------------
(* Helpers on sequences *)

Range(s) == { s[i] : i \in DOMAIN s }

RECURSIVE SeqSum(_)
SeqSum(s) == IF s = << >> THEN 0 ELSE Head(s) + SeqSum(Tail(s))

RECURSIVE Ascending(_)
\* the elements of a finite set of integers in ascending order
Ascending(S) ==
    IF S = {} THEN << >>
    ELSE LET m == CHOOSE x \in S : \A y \in S : x <= y
         IN << m >> \o Ascending(S \ {m})

\* iteration order of the dict Workflow.tasks: insertion order; tasks are
\* inserted in creation order and ids grow with creation
dict_order(ts) == Ascending(DOMAIN ts)

-----------------------------------------------------------------------------
(* planner.py: goal decomposition *)

briefing_words == {"briefing", "summary", "report"}
analysis_words == {"analyze", "analysis", "examine"}
retrieval_words == {"search", "find", "retrieve", "query"}
generation_words == {"generate", "create", "write"}
update_words == {"update", "refresh", "sync"}

Keywords == briefing_words \cup analysis_words \cup retrieval_words
              \cup generation_words \cup update_words

\* a goal is modelled by the set of planner keywords that occur in goal.lower()
Goals == { g \in SUBSET Keywords : Cardinality(g) <= MaxGoalWords }

Tpl(action, priority, duration) ==
    [ action |-> action, priority |-> priority, duration |-> duration ]

create_briefing_tasks ==
    << Tpl("query_docs", "high", 10), Tpl("extract_key_points", "high", 15),
       Tpl("synthesize", "high", 20), Tpl("format", "medium", 10) >>

create_analysis_tasks ==
    << Tpl("query_docs", "high", 15), Tpl("analyze_patterns", "high", 25),
       Tpl("synthesize", "medium", 20) >>

create_retrieval_tasks ==
    << Tpl("query_docs", "high", 10), Tpl("rerank", "medium", 5),
       Tpl("format", "low", 5) >>

create_generation_tasks ==
    << Tpl("plan", "high", 10), Tpl("synthesize", "high", 20),
       Tpl("review", "medium", 15) >>

create_update_tasks ==
    << Tpl("check_updates", "high", 10), Tpl("process_updates", "high", 20),
       Tpl("verify", "medium", 10) >>

create_default_tasks ==
    << Tpl("analyze", "high", 5), Tpl("execute", "high", 30),
       Tpl("validate", "medium", 10) >>

\* decompose_goal without the default template
decompose_goal_no_default(goal) ==
    (IF goal \cap briefing_words # {} THEN create_briefing_tasks ELSE << >>)
    \o (IF goal \cap analysis_words # {} THEN create_analysis_tasks ELSE << >>)
    \o (IF goal \cap retrieval_words # {} THEN create_retrieval_tasks ELSE << >>)
    \o (IF goal \cap generation_words # {} THEN create_generation_tasks ELSE << >>)
    \o (IF goal \cap update_words # {} THEN create_update_tasks ELSE << >>)

\* PlannerAgent._decompose_goal: the templates of the matched families, in
\* the order of the if statements; the default template when none matched
decompose_goal(goal) ==
    LET t == (IF goal \cap briefing_words # {} THEN create_briefing_tasks ELSE << >>)
             \o (IF goal \cap analysis_words # {} THEN create_analysis_tasks ELSE << >>)
             \o (IF goal \cap retrieval_words # {} THEN create_retrieval_tasks ELSE << >>)
             \o (IF goal \cap generation_words # {} THEN create_generation_tasks ELSE << >>)
             \o (IF goal \cap update_words # {} THEN create_update_tasks ELSE << >>)
    IN IF t = << >> THEN create_default_tasks ELSE t

\* decompose_goal_of looking for the keywords in the description as well
decompose_goal_of_goal_and_description(goal, description, context) ==
    decompose_goal(goal \cup description)

\* PlannerAgent._decompose_goal(goal, description, context): only goal is read
decompose_goal_of(goal, description, context) == decompose_goal(goal)

\* descriptions (the set of keywords occurring in them) and contexts a caller
\* may pass along with a goal
Descriptions == {{}} \cup { {w} : w \in Keywords }

Contexts == {"none", "documents"}

\* action_sequences with format listed as a producer for query_docs
action_sequences_back_edge(a) ==
    CASE a = "query_docs" -> {"rerank", "format"}
      [] a = "format" -> {"query_docs"}
      [] a = "extract_key_points" -> {"synthesize"}
      [] a = "analyze_patterns" -> {"synthesize"}
      [] a = "plan" -> {"synthesize"}
      [] a = "generate_content" -> {"review"}
      [] a = "check_updates" -> {"process_updates"}
      [] a = "process_updates" -> {"verify"}
      [] OTHER -> {}

\* PlannerAgent._resolve_dependencies: action_sequences
action_sequences(a) ==
    CASE a = "query_docs" -> {"rerank", "format"}
      [] a = "extract_key_points" -> {"synthesize"}
      [] a = "analyze_patterns" -> {"synthesize"}
      [] a = "plan" -> {"synthesize"}
      [] a = "generate_content" -> {"review"}
      [] a = "check_updates" -> {"process_updates"}
      [] a = "process_updates" -> {"verify"}
      [] OTHER -> {}

\* resolve_dependencies looking for producers only among the earlier tasks
resolve_dependencies_earlier_only(ts) ==
    [ o \in DOMAIN ts |->
        [ ts[o] EXCEPT !.dependencies =
            SelectSeq(dict_order(ts),
                      LAMBDA t : /\ ts[o].action \in action_sequences(ts[t].action)
                                 /\ t < o) ] ]

\* PlannerAgent._resolve_dependencies: the outer loop visits the producers in
\* task-list order and appends each once to every consumer's dependencies
resolve_dependencies(ts) ==
    [ o \in DOMAIN ts |->
        [ ts[o] EXCEPT !.dependencies =
            SelectSeq(dict_order(ts),
                      LAMBDA t : /\ ts[o].action \in action_sequences(ts[t].action)
                                 /\ o # t) ] ]

\* calculate_duration as the longest single estimate
calculate_duration_longest(ts) ==
    IF DOMAIN ts = {} THEN 0
    ELSE LET d == { ts[t].estimated_duration_seconds : t \in DOMAIN ts }
         IN CHOOSE m \in d : \A x \in d : x <= m

\* PlannerAgent._calculate_duration
calculate_duration(ts) ==
    IF DOMAIN ts = {} THEN 0
    ELSE SeqSum([ i \in 1..Len(dict_order(ts)) |->
                    ts[dict_order(ts)[i]].estimated_duration_seconds ])

\* PlannerAgent.plan_workflow: the task map built from the decomposition, with
\* ids task_<counter+1>, task_<counter+2>, ... and dependencies resolved
plan_tasks(goal, counter) ==
    LET tpl == decompose_goal(goal)
        raw == [ id \in (counter + 1)..(counter + Len(tpl)) |->
                   Task(id, tpl[id - counter].action, tpl[id - counter].priority,
                        tpl[id - counter].duration) ]
    IN resolve_dependencies(raw)

\* plan_order without the append for the last task
plan_order_short(goal, counter) ==
    [ i \in 1..(Len(decompose_goal(goal)) - 1) |-> counter + i ]

plan_order(goal, counter) ==
    [ i \in 1..Len(decompose_goal(goal)) |-> counter + i ]

\* _generate_workflow_id without the count of stored workflows
generate_workflow_id_timestamp_only(timestamp, ws) ==
    << timestamp, 0 >>

\* PlannerAgent._generate_workflow_id: "workflow_<timestamp>_<len(workflows)+1>",
\* the timestamp being the clock's second as 14 digits; the string is kept as
\* the pair of its two numbers
generate_workflow_id(timestamp, ws) ==
    << timestamp, Cardinality(DOMAIN ws) + 1 >>

\* PlannerAgent.plan_workflow: self.workflows[workflow_id] = workflow
store_workflow(ws, workflow_id, order) ==
    [ w \in DOMAIN ws \cup {workflow_id} |->
        IF w = workflow_id THEN order ELSE ws[w] ]

-----------------------------------------------------------------------------
(* planner.py: Workflow.get_ready_tasks, Workflow.get_progress *)

\* deps_met with any(...) written for all(...)
deps_met_any(ts, t) ==
    \E i \in DOMAIN ts[t].dependencies :
        ts[ts[t].dependencies[i]].status = COMPLETED

\* all(self.tasks[dep_id].status == COMPLETED for dep_id in task.dependencies)
deps_met(ts, t) ==
    \A i \in DOMAIN ts[t].dependencies :
        ts[ts[t].dependencies[i]].status = COMPLETED

\* ready_unsorted without the test of the dependencies
ready_unsorted_ignoring_deps(ts) ==
    SelectSeq(dict_order(ts), LAMBDA t : ts[t].status \in {READY, PENDING})

\* the ready list before sorting, in dict order
ready_unsorted(ts) ==
    SelectSeq(dict_order(ts),
              LAMBDA t : ts[t].status \in {READY, PENDING} /\ deps_met(ts, t))

\* sorted(ready, key=priority_order): a stable sort on the four ranks
get_ready_tasks(ts) ==
    LET r == ready_unsorted(ts)
        rank(k) == SelectSeq(r, LAMBDA t : priority_order(ts[t].priority) = k)
    IN rank(0) \o rank(1) \o rank(2) \o rank(3)

CountStatus(ts, s) == Cardinality({ t \in DOMAIN ts : ts[t].status = s })

\* the quotient num/den, kept as the pair it is computed from
Ratio(num, den) == [ num |-> num, den |-> den ]

\* Workflow.get_progress; completion_percentage is completed / total * 100
get_progress(ts) ==
    LET total == Cardinality(DOMAIN ts)
        completed == CountStatus(ts, COMPLETED)
        failed == CountStatus(ts, FAILED)
        in_progress == CountStatus(ts, IN_PROGRESS)
        blocked == CountStatus(ts, BLOCKED)
    IN [ total |-> total, completed |-> completed, failed |-> failed,
         in_progress |-> in_progress, blocked |-> blocked,
         pending |-> total - completed - failed - in_progress - blocked,
         completion_percentage |-> IF total > 0
                                   THEN Ratio(completed * 100, total)
                                   ELSE Ratio(0, 1) ]

-----------------------------------------------------------------------------
(* planner.py: PlannerAgent.update_task_status *)

\* update_task_status without the time stamp on FAILED
update_task_status_no_stamp(known, ts, task_id, status, res, error) ==
    IF ~known \/ task_id \notin DOMAIN ts THEN ts
    ELSE [ ts EXCEPT ![task_id] =
            CASE status = IN_PROGRESS ->
                    [ @ EXCEPT !.status = status, !.started_at = "set" ]
              [] status = COMPLETED ->
                    [ @ EXCEPT !.status = status, !.completed_at = "set",
                               !.result = res ]
              [] status = FAILED ->
                    [ @ EXCEPT !.status = status, !.error = error ]
              [] OTHER -> [ @ EXCEPT !.status = status ] ]

\* known: the planner's workflows map holds the workflow id
update_task_status(known, ts, task_id, status, res, error) ==
    IF ~known \/ task_id \notin DOMAIN ts THEN ts
    ELSE [ ts EXCEPT ![task_id] =
            CASE status = IN_PROGRESS ->
                    [ @ EXCEPT !.status = status, !.started_at = "set" ]
              [] status = COMPLETED ->
                    [ @ EXCEPT !.status = status, !.completed_at = "set",
                               !.result = res ]
              [] status = FAILED ->
                    [ @ EXCEPT !.status = status, !.error = error,
                               !.completed_at = "set" ]
              [] OTHER -> [ @ EXCEPT !.status = status ] ]

\* the orchestrator's own planner knows only the workflows it planned itself
orchestrator_knows == store = "own"

-----------------------------------------------------------------------------
(* orchestrator.py: ExecutionResult *)

NoResult ==
    [ status |-> "none", success |-> FALSE, completed_at |-> Null,
      tasks_completed |-> 0, tasks_failed |-> 0, tasks_total |-> 0,
      results |-> << >>, errors |-> << >>, reviews |-> << >> ]

\* _execute_workflow_tasks: the ExecutionResult shell
ExecutionResult(ts) ==
    [ status |-> "running", success |-> FALSE, completed_at |-> Null,
      tasks_completed |-> 0, tasks_failed |-> 0,
      tasks_total |-> Cardinality(DOMAIN ts),
      results |-> << >>, errors |-> << >>, reviews |-> << >> ]

\* strategy_returned with the status not derived from tasks_failed
strategy_returned_always_completed(res) ==
    [ res EXCEPT !.success = (res.tasks_failed = 0),
                 !.status = "completed",
                 !.completed_at = "set" ]

\* _execute_workflow_tasks: the strategy returned normally, then finally
strategy_returned(res) ==
    [ res EXCEPT !.success = (res.tasks_failed = 0),
                 !.status = IF res.tasks_failed = 0 THEN "completed"
                            ELSE "completed_with_errors",
                 !.completed_at = "set" ]

\* strategy_raised without the except block: only the finally block runs
strategy_raised_uncaught(res, e) ==
    [ res EXCEPT !.completed_at = "set" ]

\* _execute_workflow_tasks: except Exception as e, then finally
strategy_raised(res, e) ==
    [ res EXCEPT !.errors = Append(@, e), !.status = "failed",
                 !.success = FALSE, !.completed_at = "set" ]

\* the handler's result map; its "action" entry names the handler
task_result(ts, t) == ts[t].action

\* _execute_task: error_msg
error_msg(t) == "Task task_" \o ToString(t) \o " failed"

DeadlockMsg == "No ready tasks and nothing executed"

\* ready_not_executed without the filter on executed
ready_not_executed_unfiltered(ts, done) == get_ready_tasks(ts)

\* _execute_sequential: ready_not_executed
ready_not_executed(ts, done) ==
    SelectSeq(get_ready_tasks(ts), LAMBDA t : t \notin done)

\* execute_workflow stores the result it returns; a caller of
\* _execute_workflow_tasks does not
record_execution(how, res, old) ==
    IF how = "execute_workflow" THEN res ELSE old

Idle == pc \in {"idle", "done"}

\* an execution attempt is between its start and its return
Running == pc \in {"loop", "dispatch", "handler", "review", "summarize"}

-----------------------------------------------------------------------------
(* Entry points that plan *)

\* api/agents.py plan_workflow: _planner.plan_workflow(goal, ...)
api_plan_workflow ==
    /\ store = "none"
    /\ pc = "idle"
    /\ \E goal \in Goals :
        /\ tasks' = plan_tasks(goal, task_counter)
        /\ task_order' = plan_order(goal, task_counter)
        /\ estimated_total_duration' = calculate_duration(plan_tasks(goal, task_counter))
        /\ task_counter' = task_counter + Len(decompose_goal(goal))
    /\ wf_status' = "ready"
    /\ store' = "api"
    /\ workflows' = store_workflow(workflows, generate_workflow_id(1, workflows), task_order')
    /\ last_call' = [ op |-> "plan_workflow", ret |-> TRUE ]
    /\ UNCHANGED << pc, entry, executed, queue, cur, result, executions,
                    attempts, raises, status_writer >>

\* AgentOrchestrator.execute_workflow: plan in the orchestrator's own planner,
\* then enter _execute_workflow_tasks (a planned workflow always has tasks)
execute_workflow ==
    /\ store = "none"
    /\ pc = "idle"
    /\ attempts < MaxAttempts
    /\ \E goal \in Goals :
        /\ tasks' = plan_tasks(goal, task_counter)
        /\ task_order' = plan_order(goal, task_counter)
        /\ estimated_total_duration' = calculate_duration(plan_tasks(goal, task_counter))
        /\ task_counter' = task_counter + Len(decompose_goal(goal))
    /\ wf_status' = "ready"
    /\ store' = "own"
    /\ workflows' = store_workflow(workflows, generate_workflow_id(1, workflows), task_order')
    /\ entry' = "execute_workflow"
    /\ attempts' = attempts + 1
    /\ result' = ExecutionResult(tasks')
    /\ executed' = {}
    /\ queue' = << >>
    /\ cur' = 0
    /\ pc' = "loop"
    /\ last_call' = [ op |-> "execute_workflow", ret |-> TRUE ]
    /\ UNCHANGED << executions, raises, status_writer >>

-----------------------------------------------------------------------------
(* _execute_workflow_tasks on an existing workflow *)

\* lines 114-125: the shell, and the short cut for a workflow without tasks
begin_execution(how) ==
    /\ entry' = how
    /\ attempts' = attempts + 1
    /\ executed' = {}
    /\ queue' = << >>
    /\ cur' = 0
    /\ IF DOMAIN tasks = {}
       THEN /\ result' = [ ExecutionResult(tasks) EXCEPT !.status = "completed",
                              !.success = TRUE, !.completed_at = "set" ]
            /\ pc' = "done"
       ELSE /\ result' = ExecutionResult(tasks)
            /\ pc' = "loop"
    /\ last_call' = [ op |-> "_execute_workflow_tasks", ret |-> TRUE ]
    /\ UNCHANGED << store, workflows, tasks, task_order, wf_status, estimated_total_duration,
                    task_counter, raises, status_writer >>

\* api/agents.py execute_workflow: a new AgentOrchestrator (with a new, empty
\* planner and no executions) runs a workflow taken from _planner
api_execute_workflow ==
    /\ store = "api"
    /\ Idle
    /\ attempts < MaxAttempts
    /\ executions' = NoResult
    /\ begin_execution("run_existing")

\* orchestrator._execute_workflow_tasks(orchestrator.planner.get_workflow(id)):
\* the orchestrator runs again a workflow of its own planner
execute_workflow_tasks ==
    /\ store = "own"
    /\ Idle
    /\ attempts < MaxAttempts
    /\ UNCHANGED executions
    /\ begin_execution("run_existing")

-----------------------------------------------------------------------------
(* _execute_sequential *)

\* the strategy returns or raises: the rest of _execute_workflow_tasks, and
\* of execute_workflow when that is the entry point
finish(res) ==
    /\ result' = res
    /\ executions' = record_execution(entry, res, executions)
    /\ pc' = "done"
    /\ UNCHANGED << store, workflows, tasks, task_order, wf_status, estimated_total_duration,
                    task_counter, entry, executed, queue, cur, attempts, raises,
                    last_call, status_writer >>

\* lines 156-158, 167: a non-empty snapshot of ready tasks not yet executed
loop_snapshot ==
    /\ pc = "loop"
    /\ Cardinality(executed) < Cardinality(DOMAIN tasks)
    /\ ready_not_executed(tasks, executed) # << >>
    /\ queue' = ready_not_executed(tasks, executed)
    /\ pc' = "dispatch"
    /\ UNCHANGED << store, workflows, tasks, task_order, wf_status, estimated_total_duration,
                    task_counter, entry, executed, cur, result, executions,
                    attempts, raises, last_call, status_writer >>

\* line 156 false, or lines 160-163: break
loop_exit ==
    /\ pc = "loop"
    /\ \/ Cardinality(executed) >= Cardinality(DOMAIN tasks)
       \/ /\ ready_not_executed(tasks, executed) = << >>
          /\ executed # {}
    /\ finish(strategy_returned(result))

\* lines 160-165: raise RuntimeError, caught in _execute_workflow_tasks
loop_deadlock ==
    /\ pc = "loop"
    /\ Cardinality(executed) < Cardinality(DOMAIN tasks)
    /\ ready_not_executed(tasks, executed) = << >>
    /\ executed = {}
    /\ finish(strategy_raised(result, DeadlockMsg))

\* after_task without executed.add(task.id)
after_task_not_recorded(t) ==
    /\ executed' = executed
    /\ pc' = IF queue = << >> THEN "loop" ELSE "dispatch"

\* after _execute_task returned: lines 169-174, then the next task of the
\* snapshot or the next iteration of the while loop
after_task(t) ==
    /\ executed' = executed \cup {t}
    /\ pc' = IF queue = << >> THEN "loop" ELSE "dispatch"

-----------------------------------------------------------------------------
(* _execute_task *)

write_via_planner == IF orchestrator_knows THEN "update_task_status" ELSE status_writer

\* lines 167-168, 212: the next task of the snapshot is marked IN_PROGRESS
dispatch ==
    /\ pc = "dispatch"
    /\ queue # << >>
    /\ cur' = Head(queue)
    /\ queue' = Tail(queue)
    /\ tasks' = update_task_status(orchestrator_knows, tasks, Head(queue),
                                   IN_PROGRESS, Null, Null)
    /\ status_writer' = write_via_planner
    /\ pc' = "handler"
    /\ UNCHANGED << store, workflows, task_order, wf_status, estimated_total_duration,
                    task_counter, entry, executed, result, executions, attempts,
                    raises, last_call >>

\* handler_returns without the update of the task's status
handler_returns_not_recorded ==
    /\ pc = "handler"
    /\ result' = [ result EXCEPT
                     !.results = (cur :> task_result(tasks, cur)) @@ @ ]
    /\ pc' = "review"
    /\ UNCHANGED << store, workflows, tasks, task_order, wf_status, estimated_total_duration,
                    task_counter, entry, executed, queue, cur, executions,
                    attempts, raises, last_call, status_writer >>

\* lines 216-233: the handler returned; COMPLETED and the result are recorded
handler_returns ==
    /\ pc = "handler"
    /\ tasks' = update_task_status(orchestrator_knows, tasks, cur, COMPLETED,
                                   task_result(tasks, cur), Null)
    /\ result' = [ result EXCEPT
                     !.results = (cur :> task_result(tasks, cur)) @@ @ ]
    /\ status_writer' = write_via_planner
    /\ pc' = "review"
    /\ UNCHANGED << store, workflows, task_order, wf_status, estimated_total_duration,
                    task_counter, entry, executed, queue, cur, executions,
                    attempts, raises, last_call >>

\* task_failed without result.errors.append(error_msg)
task_failed_no_error(res, t) == res

\* lines 263-276: the except block of _execute_task
task_failed(res, t) ==
    [ res EXCEPT !.errors = Append(@, error_msg(t)) ]

\* lines 216-222 raise: the handler raised; then lines 169, 174
handler_raises ==
    /\ pc = "handler"
    /\ raises < MaxRaises
    /\ raises' = raises + 1
    /\ tasks' = update_task_status(orchestrator_knows, tasks, cur, FAILED,
                                   Null, error_msg(cur))
    /\ result' = [ task_failed(result, cur) EXCEPT !.tasks_failed = @ + 1 ]
    /\ status_writer' = write_via_planner
    /\ after_task(cur)
    /\ UNCHANGED << store, workflows, task_order, wf_status, estimated_total_duration,
                    task_counter, entry, queue, cur, executions, attempts,
                    last_call >>

\* lines 235-261: review and summarization returned (or were skipped);
\* _execute_task returns True; then lines 169, 172
review_returns ==
    /\ pc = "review"
    /\ result' = [ result EXCEPT !.tasks_completed = @ + 1 ]
    /\ after_task(cur)
    /\ UNCHANGED << store, workflows, tasks, task_order, wf_status, estimated_total_duration,
                    task_counter, entry, queue, cur, executions, attempts,
                    raises, last_call, status_writer >>

\* lines 235-256 raise inside the same try block (task_result.get on a result
\* that is no mapping, critic.review or summarizer.summarize raising): the
\* except block runs for a task already marked COMPLETED
review_raises ==
    /\ pc = "review"
    /\ raises < MaxRaises
    /\ raises' = raises + 1
    /\ tasks' = update_task_status(orchestrator_knows, tasks, cur, FAILED,
                                   Null, error_msg(cur))
    /\ result' = [ task_failed(result, cur) EXCEPT !.tasks_failed = @ + 1 ]
    /\ status_writer' = write_via_planner
    /\ after_task(cur)
    /\ UNCHANGED << store, workflows, task_order, wf_status, estimated_total_duration,
                    task_counter, entry, queue, cur, executions, attempts,
                    last_call >>

-----------------------------------------------------------------------------
(* cancel_workflow, retry_failed_task *)

\* cancel_tasks blocking every task that is not COMPLETED
cancel_tasks_unfinished(ts) ==
    [ t \in DOMAIN ts |->
        IF ts[t].status # COMPLETED
        THEN [ ts[t] EXCEPT !.status = BLOCKED ]
        ELSE ts[t] ]

\* lines 457-459: every PENDING or READY task becomes BLOCKED
cancel_tasks(ts) ==
    [ t \in DOMAIN ts |->
        IF ts[t].status \in {PENDING, READY}
        THEN [ ts[t] EXCEPT !.status = BLOCKED ]
        ELSE ts[t] ]

\* AgentOrchestrator.cancel_workflow(workflow.id), or an id nobody planned
\* when there is no workflow yet
cancel_workflow ==
    /\ Idle
    /\ IF orchestrator_knows
       THEN /\ tasks' = cancel_tasks(tasks)
            /\ status_writer' = IF tasks' # tasks THEN "direct" ELSE status_writer
            /\ last_call' = [ op |-> "cancel_workflow", ret |-> TRUE ]
       ELSE /\ last_call' = [ op |-> "cancel_workflow", ret |-> FALSE ]
            /\ UNCHANGED << tasks, status_writer >>
    /\ pc' = "idle"
    /\ UNCHANGED << store, workflows, task_order, wf_status, estimated_total_duration,
                    task_counter, entry, executed, queue, cur, result,
                    executions, attempts, raises >>

\* can_retry without the test of the task's status
can_retry_any_status(known, ts, task_id) ==
    /\ known
    /\ task_id \in DOMAIN ts

\* lines 469-471: the task exists and is FAILED
can_retry(known, ts, task_id) ==
    /\ known
    /\ task_id \in DOMAIN ts
    /\ ts[task_id].status = FAILED

\* line 474
retry_task(ts, task_id) == [ ts EXCEPT ![task_id].status = PENDING ]

\* ids a caller may pass: those of the workflow and one that names no task
TaskIds == DOMAIN tasks \cup {0}

\* AgentOrchestrator.retry_failed_task(workflow.id, task_id)
retry_failed_task ==
    /\ Idle
    /\ \E task_id \in TaskIds :
        IF can_retry(orchestrator_knows, tasks, task_id)
        THEN /\ tasks' = retry_task(tasks, task_id)
             /\ status_writer' = "direct"
             /\ last_call' = [ op |-> "retry_failed_task", ret |-> TRUE ]
        ELSE /\ last_call' = [ op |-> "retry_failed_task", ret |-> FALSE ]
             /\ UNCHANGED << tasks, status_writer >>
    /\ pc' = "idle"
    /\ UNCHANGED << store, workflows, task_order, wf_status, estimated_total_duration,
                    task_counter, entry, executed, queue, cur, result,
                    executions, attempts, raises >>

-----------------------------------------------------------------------------
(* Specification: a planner-made workflow; calls do not overlap an execution *)

Init ==
    /\ store = "none"
    /\ workflows = << >>
    /\ tasks = << >>
    /\ task_order = << >>
    /\ wf_status = "none"
    /\ estimated_total_duration = 0
    /\ task_counter = 0
    /\ pc = "idle"
    /\ entry = "none"
    /\ executed = {}
    /\ queue = << >>
    /\ cur = 0
    /\ result = NoResult
    /\ executions = NoResult
    /\ attempts = 0
    /\ raises = 0
    /\ last_call = [ op |-> "none", ret |-> TRUE ]
    /\ status_writer = "none"

Next ==
    \/ api_plan_workflow
    \/ execute_workflow
    \/ api_execute_workflow
    \/ execute_workflow_tasks
    \/ loop_snapshot
    \/ loop_exit
    \/ loop_deadlock
    \/ dispatch
    \/ handler_returns
    \/ handler_raises
    \/ review_returns
    \/ review_raises
    \/ cancel_workflow
    \/ retry_failed_task

Spec == Init /\ [][Next]_vars

-----------------------------------------------------------------------------
(* Specification: a Workflow constructed by the caller, with any dependency *)
(* lists over its own tasks (self-dependencies and cycles included), held   *)
(* by the orchestrator's planner or by another one                          *)

\* Task(id=..., ...) with the dataclass defaults and the given dependencies
GraphTask(id, deps) ==
    [ Task(id, "execute", "medium", 30) EXCEPT !.dependencies = deps ]

\* every assignment of a set of dependencies to each of n tasks
Graphs == UNION { [ 1..n -> SUBSET (1..n) ] : n \in 0..MaxGraphTasks }

InitGraph ==
    /\ store \in {"own", "api"}
    /\ \E g \in Graphs :
        /\ tasks = [ i \in DOMAIN g |-> GraphTask(i, Ascending(g[i])) ]
        /\ task_order = Ascending(DOMAIN g)
        /\ task_counter = Cardinality(DOMAIN g)
    /\ workflows = store_workflow(<< >>, generate_workflow_id(1, << >>), task_order)
    /\ wf_status = "planning"
    /\ estimated_total_duration = 0
    /\ pc = "idle"
    /\ entry = "none"
    /\ executed = {}
    /\ queue = << >>
    /\ cur = 0
    /\ result = NoResult
    /\ executions = NoResult
    /\ attempts = 0
    /\ raises = 0
    /\ last_call = [ op |-> "none", ret |-> TRUE ]
    /\ status_writer = "none"

NextGraph ==
    \/ api_execute_workflow
    \/ execute_workflow_tasks
    \/ loop_snapshot
    \/ loop_exit
    \/ loop_deadlock
    \/ dispatch
    \/ handler_returns
    \/ handler_raises
    \/ review_returns
    \/ review_raises
    \/ cancel_workflow
    \/ retry_failed_task

SpecGraph == InitGraph /\ [][NextGraph]_vars

-----------------------------------------------------------------------------
(* Specification: as SpecGraph, and cancel_workflow may also be called      *)
(* while an execution attempt is in progress (from a handler or from        *)
(* another thread of the caller): the orchestrator takes no lock            *)

\* AgentOrchestrator.cancel_workflow(workflow.id) called during
\* _execute_sequential; the attempt goes on where it was
cancel_workflow_in_flight ==
    /\ pc \in {"loop", "dispatch", "handler", "review"}
    /\ IF orchestrator_knows
       THEN /\ tasks' = cancel_tasks(tasks)
            /\ status_writer' = IF tasks' # tasks THEN "direct" ELSE status_writer
            /\ last_call' = [ op |-> "cancel_workflow", ret |-> TRUE ]
       ELSE /\ last_call' = [ op |-> "cancel_workflow", ret |-> FALSE ]
            /\ UNCHANGED << tasks, status_writer >>
    /\ UNCHANGED << store, workflows, task_order, wf_status, estimated_total_duration,
                    task_counter, pc, entry, executed, queue, cur, result,
                    executions, attempts, raises >>

NextCancel ==
    \/ api_execute_workflow
    \/ execute_workflow_tasks
    \/ loop_snapshot
    \/ loop_exit
    \/ loop_deadlock
    \/ dispatch
    \/ handler_returns
    \/ handler_raises
    \/ review_returns
    \/ review_raises
    \/ cancel_workflow
    \/ cancel_workflow_in_flight
    \/ retry_failed_task

SpecCancel == InitGraph /\ [][NextCancel]_vars

-----------------------------------------------------------------------------
(* Specification: the entry points of the planner and of the orchestrator   *)
(* as functions of the state they are called in.  The initial state is a    *)
(* workflow whose tasks are in any status; one entry point is then called   *)
(* with ids that are known or unknown, and the call, its arguments and what *)
(* it returned are recorded in last_call                                    *)

\* Python's None, and a value that is not None
None == [ none |-> TRUE ]
Some(v) == [ value |-> v ]

\* workflow ids a caller may pass: that of the workflow and one nobody planned
WorkflowIds == {"wf", "unknown"}

\* self.workflows.get(workflow_id) of the planner that holds the workflow
planner_has(wid) == wid = "wf" /\ store # "none"

\* orchestrator_has answering for whatever id it is given
orchestrator_has_any(wid) == orchestrator_knows

\* self.planner.get_workflow(workflow_id) of the orchestrator
orchestrator_has(wid) == wid = "wf" /\ orchestrator_knows

\* PlannerAgent.get_workflow
get_workflow(known, ts) == IF known THEN Some(ts) ELSE None

\* PlannerAgent.get_next_tasks
get_next_tasks(known, ts) == IF known THEN get_ready_tasks(ts) ELSE << >>

\* PlannerAgent.get_workflow_progress
get_workflow_progress(known, ts) == IF known THEN Some(get_progress(ts)) ELSE None

\* the value PlannerAgent.update_task_status returns
update_task_status_returns(known, ts, task_id) == known /\ task_id \in DOMAIN ts

\* AgentOrchestrator.get_execution
get_execution(wid, ex) == IF wid = "wf" /\ ex # NoResult THEN Some(ex) ELSE None

\* AgentOrchestrator.get_workflow_status
get_workflow_status(wid, known, ex, ts) ==
    IF get_execution(wid, ex) = None THEN None
    ELSE IF ~known THEN None
    ELSE Some([ status |-> ex.status, progress |-> get_progress(ts),
                tasks_completed |-> ex.tasks_completed,
                tasks_failed |-> ex.tasks_failed, success |-> ex.success ])

\* a task as the code leaves it in the given status
TaskIn(id, deps, status) ==
    [ GraphTask(id, deps) EXCEPT
        !.status = status,
        !.started_at = IF status \in {IN_PROGRESS, COMPLETED, FAILED}
                       THEN "set" ELSE Null,
        !.completed_at = IF status \in {COMPLETED, FAILED} THEN "set" ELSE Null,
        !.result = IF status = COMPLETED THEN "execute" ELSE Null,
        !.error = IF status = FAILED THEN error_msg(id) ELSE Null ]

\* the dependency lists of the drawn workflows: none, or each task on the
\* one before it
Shapes == {"independent", "chain"}

shape_deps(shape, i) == IF shape = "chain" /\ i > 1 THEN << i - 1 >> ELSE << >>

\* the result of an attempt that left the tasks as they are
SomeResult(ts) ==
    [ strategy_returned(ExecutionResult(ts)) EXCEPT
        !.tasks_completed = CountStatus(ts, COMPLETED) ]

InitEntry ==
    /\ store \in {"own", "api"}
    /\ \E n \in 0..MaxGraphTasks, shape \in Shapes :
        \E st \in [ 1..n -> TaskStatus ] :
            /\ tasks = [ i \in 1..n |-> TaskIn(i, shape_deps(shape, i), st[i]) ]
            /\ task_order = Ascending(1..n)
            /\ task_counter = n
    /\ workflows = store_workflow(<< >>, generate_workflow_id(1, << >>), task_order)
    /\ wf_status = "planning"
    /\ estimated_total_duration = 0
    /\ pc = "idle"
    /\ entry = "none"
    /\ executed = {}
    /\ queue = << >>
    /\ cur = 0
    /\ result = NoResult
    /\ executions \in {NoResult} \cup
                      (IF store = "own" THEN {SomeResult(tasks)} ELSE {})
    /\ attempts = 0
    /\ raises = 0
    /\ last_call = [ op |-> "none", ret |-> TRUE ]
    /\ status_writer = "none"

\* no entry point has been called yet on the drawn state
Uncalled == pc = "idle" /\ last_call.op = "none"

\* planner.get_workflow(workflow_id)
call_get_workflow ==
    /\ Uncalled
    /\ \E wid \in WorkflowIds :
        last_call' = [ op |-> "get_workflow", workflow_id |-> wid,
                       ret |-> get_workflow(planner_has(wid), tasks) ]
    /\ UNCHANGED << store, workflows, tasks, task_order, wf_status, estimated_total_duration,
                    task_counter, pc, entry, executed, queue, cur, result,
                    executions, attempts, raises, status_writer >>

\* planner.get_workflow_progress(workflow_id)
call_get_workflow_progress ==
    /\ Uncalled
    /\ \E wid \in WorkflowIds :
        last_call' = [ op |-> "get_workflow_progress", workflow_id |-> wid,
                       ret |-> get_workflow_progress(planner_has(wid), tasks) ]
    /\ UNCHANGED << store, workflows, tasks, task_order, wf_status, estimated_total_duration,
                    task_counter, pc, entry, executed, queue, cur, result,
                    executions, attempts, raises, status_writer >>

\* planner.get_next_tasks(workflow_id)
call_get_next_tasks ==
    /\ Uncalled
    /\ \E wid \in WorkflowIds :
        last_call' = [ op |-> "get_next_tasks", workflow_id |-> wid,
                       ret |-> get_next_tasks(planner_has(wid), tasks) ]
    /\ UNCHANGED << store, workflows, tasks, task_order, wf_status, estimated_total_duration,
                    task_counter, pc, entry, executed, queue, cur, result,
                    executions, attempts, raises, status_writer >>

\* orchestrator.get_execution(workflow_id)
call_get_execution ==
    /\ Uncalled
    /\ \E wid \in WorkflowIds :
        last_call' = [ op |-> "get_execution", workflow_id |-> wid,
                       ret |-> get_execution(wid, executions) ]
    /\ UNCHANGED << store, workflows, tasks, task_order, wf_status, estimated_total_duration,
                    task_counter, pc, entry, executed, queue, cur, result,
                    executions, attempts, raises, status_writer >>

\* orchestrator.get_workflow_status(workflow_id)
call_get_workflow_status ==
    /\ Uncalled
    /\ \E wid \in WorkflowIds :
        last_call' = [ op |-> "get_workflow_status", workflow_id |-> wid,
                       ret |-> get_workflow_status(wid, orchestrator_has(wid),
                                                  executions, tasks) ]
    /\ UNCHANGED << store, workflows, tasks, task_order, wf_status, estimated_total_duration,
                    task_counter, pc, entry, executed, queue, cur, result,
                    executions, attempts, raises, status_writer >>

\* planner.update_task_status(workflow_id, task_id, status, result, error)
\* called on the planner that holds the workflow
call_update_task_status ==
    /\ Uncalled
    /\ \E wid \in WorkflowIds, task_id \in TaskIds, status \in TaskStatus,
          res \in {Null, "result"}, error \in {Null, "error"} :
        /\ tasks' = update_task_status(planner_has(wid), tasks, task_id, status,
                                       res, error)
        /\ last_call' = [ op |-> "update_task_status", workflow_id |-> wid,
                          task_id |-> task_id, status |-> status,
                          result |-> res, error |-> error,
                          ret |-> update_task_status_returns(planner_has(wid),
                                                             tasks, task_id) ]
        /\ status_writer' = IF last_call'.ret THEN "update_task_status"
                            ELSE status_writer
    /\ UNCHANGED << store, workflows, task_order, wf_status, estimated_total_duration,
                    task_counter, pc, entry, executed, queue, cur, result,
                    executions, attempts, raises >>

\* orchestrator.cancel_workflow(workflow_id)
call_cancel_workflow ==
    /\ Uncalled
    /\ \E wid \in WorkflowIds :
        IF orchestrator_has(wid)
        THEN /\ tasks' = cancel_tasks(tasks)
             /\ status_writer' = IF tasks' # tasks THEN "direct" ELSE status_writer
             /\ last_call' = [ op |-> "cancel_workflow", workflow_id |-> wid,
                               ret |-> TRUE ]
        ELSE /\ last_call' = [ op |-> "cancel_workflow", workflow_id |-> wid,
                               ret |-> FALSE ]
             /\ UNCHANGED << tasks, status_writer >>
    /\ UNCHANGED << store, workflows, task_order, wf_status, estimated_total_duration,
                    task_counter, pc, entry, executed, queue, cur, result,
                    executions, attempts, raises >>

\* orchestrator.retry_failed_task(workflow_id, task_id)
call_retry_failed_task ==
    /\ Uncalled
    /\ \E wid \in WorkflowIds, task_id \in TaskIds :
        IF can_retry(orchestrator_has(wid), tasks, task_id)
        THEN /\ tasks' = retry_task(tasks, task_id)
             /\ status_writer' = "direct"
             /\ last_call' = [ op |-> "retry_failed_task", workflow_id |-> wid,
                               task_id |-> task_id, ret |-> TRUE ]
        ELSE /\ last_call' = [ op |-> "retry_failed_task", workflow_id |-> wid,
                               task_id |-> task_id, ret |-> FALSE ]
             /\ UNCHANGED << tasks, status_writer >>
    /\ UNCHANGED << store, workflows, task_order, wf_status, estimated_total_duration,
                    task_counter, pc, entry, executed, queue, cur, result,
                    executions, attempts, raises >>

NextEntry ==
    \/ call_get_workflow
    \/ call_get_workflow_progress
    \/ call_get_next_tasks
    \/ call_get_execution
    \/ call_get_workflow_status
    \/ call_update_task_status
    \/ call_cancel_workflow
    \/ call_retry_failed_task

SpecEntry == InitEntry /\ [][NextEntry]_vars

-----------------------------------------------------------------------------
(* Specification: execution attempts, cancellations and retries on a        *)
(* workflow that earlier attempts have left in any status                   *)

SpecRetry == InitEntry /\ [][NextGraph]_vars

-----------------------------------------------------------------------------
(* Specification: as SpecGraph, with the review and the summarization of a  *)
(* task's output as steps of their own: the critic's verdict is kept in     *)
(* result.reviews, then the summarizer returns or raises                    *)

\* ReviewResult.is_approved
Verdicts == {"approved", "rejected"}

\* lines 235-246: critic.review returned; result.reviews[task.id] = review
critic_review_returns ==
    /\ pc = "review"
    /\ \E is_approved \in Verdicts :
        result' = [ result EXCEPT !.reviews = (cur :> is_approved) @@ @ ]
    /\ pc' = "summarize"
    /\ UNCHANGED << store, workflows, tasks, task_order, wf_status, estimated_total_duration,
                    task_counter, entry, executed, queue, cur, executions,
                    attempts, raises, last_call, status_writer >>

\* lines 248-261 after a review: the summarizer returned or was not called;
\* _execute_task returns True; then lines 169, 172
summarize_returns ==
    /\ pc = "summarize"
    /\ result' = [ result EXCEPT !.tasks_completed = @ + 1 ]
    /\ after_task(cur)
    /\ UNCHANGED << store, workflows, tasks, task_order, wf_status, estimated_total_duration,
                    task_counter, entry, queue, cur, executions, attempts,
                    raises, last_call, status_writer >>

\* lines 248-256 raise after a review (len() of an output that has none,
\* summarizer.summarize raising): the except block, lines 263-276
summarize_raises ==
    /\ pc = "summarize"
    /\ raises < MaxRaises
    /\ raises' = raises + 1
    /\ tasks' = update_task_status(orchestrator_knows, tasks, cur, FAILED,
                                   Null, error_msg(cur))
    /\ result' = [ task_failed(result, cur) EXCEPT !.tasks_failed = @ + 1 ]
    /\ status_writer' = write_via_planner
    /\ after_task(cur)
    /\ UNCHANGED << store, workflows, task_order, wf_status, estimated_total_duration,
                    task_counter, entry, queue, cur, executions, attempts,
                    last_call >>

NextReview ==
    \/ api_execute_workflow
    \/ execute_workflow_tasks
    \/ loop_snapshot
    \/ loop_exit
    \/ loop_deadlock
    \/ dispatch
    \/ handler_returns
    \/ handler_raises
    \/ review_returns
    \/ review_raises
    \/ critic_review_returns
    \/ summarize_returns
    \/ summarize_raises
    \/ cancel_workflow
    \/ retry_failed_task

SpecReview == InitGraph /\ [][NextReview]_vars

-----------------------------------------------------------------------------
(* Specification: PlannerAgent.plan_workflow as a function of the goal and   *)
(* of the planner's task counter.  The planner has planned nothing or one    *)
(* workflow before; plan_workflow is then called with a goal that contains   *)
(* keywords of any combination of the five families, and the goal is         *)
(* recorded in last_call                                                     *)

\* a goal passed to plan_workflow contains at most this many keywords
MaxPlanWords == 5

PlanGoals == { g \in SUBSET Keywords : Cardinality(g) <= MaxPlanWords }

\* _task_counter of a new planner, or after one earlier plan_workflow with a
\* goal of one keyword
PriorCounters == {0} \cup { Len(decompose_goal({w})) : w \in Keywords }

InitPlan ==
    /\ store = "none"
    /\ workflows = << >>
    /\ tasks = << >>
    /\ task_order = << >>
    /\ wf_status = "none"
    /\ estimated_total_duration = 0
    /\ task_counter \in PriorCounters
    /\ pc = "idle"
    /\ entry = "none"
    /\ executed = {}
    /\ queue = << >>
    /\ cur = 0
    /\ result = NoResult
    /\ executions = NoResult
    /\ attempts = 0
    /\ raises = 0
    /\ last_call = [ op |-> "none", ret |-> TRUE ]
    /\ status_writer = "none"

\* PlannerAgent.plan_workflow(goal, description)
plan_workflow ==
    /\ store = "none"
    /\ pc = "idle"
    /\ \E goal \in PlanGoals :
        /\ tasks' = plan_tasks(goal, task_counter)
        /\ task_order' = plan_order(goal, task_counter)
        /\ estimated_total_duration' = calculate_duration(tasks')
        /\ task_counter' = task_counter + Len(decompose_goal(goal))
        /\ last_call' = [ op |-> "plan_workflow", goal |-> goal, ret |-> TRUE ]
    /\ wf_status' = "ready"
    /\ store' = "api"
    /\ workflows' = store_workflow(workflows, generate_workflow_id(1, workflows), task_order')
    /\ UNCHANGED << pc, entry, executed, queue, cur, result, executions,
                    attempts, raises, status_writer >>

NextPlan ==
    \/ plan_workflow

SpecPlan == InitPlan /\ [][NextPlan]_vars

-----------------------------------------------------------------------------
(* Specification: one execution attempt on a Workflow constructed by the    *)
(* caller, during which cancel_workflow and retry_failed_task may be called *)
(* at any point.  _execute_workflow_tasks is synchronous code without       *)
(* waits, so a step of an attempt that can be taken is eventually taken     *)

\* AgentOrchestrator.retry_failed_task(workflow.id, task_id) called during
\* _execute_sequential; the attempt goes on where it was
retry_failed_task_in_flight ==
    /\ Running
    /\ \E task_id \in TaskIds :
        IF can_retry(orchestrator_knows, tasks, task_id)
        THEN /\ tasks' = retry_task(tasks, task_id)
             /\ status_writer' = "direct"
             /\ last_call' = [ op |-> "retry_failed_task", ret |-> TRUE ]
        ELSE /\ last_call' = [ op |-> "retry_failed_task", ret |-> FALSE ]
             /\ UNCHANGED << tasks, status_writer >>
    /\ UNCHANGED << store, workflows, task_order, wf_status, estimated_total_duration,
                    task_counter, pc, entry, executed, queue, cur, result,
                    executions, attempts, raises >>

\* a step of _execute_workflow_tasks after its start
ExecutionStep ==
    \/ loop_snapshot
    \/ loop_exit
    \/ loop_deadlock
    \/ dispatch
    \/ handler_returns
    \/ handler_raises
    \/ review_returns
    \/ review_raises

\* the first call of _execute_workflow_tasks on the workflow
first_execution ==
    /\ attempts = 0
    /\ \/ api_execute_workflow
       \/ execute_workflow_tasks

NextRun ==
    \/ first_execution
    \/ ExecutionStep
    \/ cancel_workflow_in_flight
    \/ retry_failed_task_in_flight

SpecRun == InitGraph /\ [][NextRun]_vars /\ WF_vars(ExecutionStep)

-----------------------------------------------------------------------------
(* Specification: the three execution strategies as functions of the        *)
(* workflow and of the outcome of each task's execution.  A Workflow         *)
(* constructed by the caller is run once, in one of the modes, with a given  *)
(* pattern of outcomes; the mode, the pattern and the order in which the     *)
(* tasks were dispatched are recorded in last_call                           *)

\* orchestrator.py: WorkflowMode
WorkflowMode == {"sequential", "parallel", "hybrid"}

\* what happens when a task is executed: the handler returns and so do review
\* and summarization, the handler raises, or review or summarization raises
Outcomes == {"returns", "handler_raises", "review_raises"}

\* one outcome per task, with at most MaxRaises exceptions
OutcomePatterns(ts) ==
    { o \in [ DOMAIN ts -> Outcomes ] :
        Cardinality({ t \in DOMAIN ts : o[t] # "returns" }) <= MaxRaises }

\* the state of a strategy: the tasks, the result, executed, and the order of
\* the calls of _execute_task
StrategyState(ts, res) ==
    [ tasks |-> ts, result |-> res, executed |-> {}, order |-> << >> ]

\* _execute_task(workflow, task, result) with the given outcome, and lines
\* 169-174 (or 191-196) of the loop around it
execute_task(known, st, t, outcome) ==
    LET started == update_task_status(known, st.tasks, t, IN_PROGRESS, Null, Null)
        completed == update_task_status(known, started, t, COMPLETED,
                                        task_result(started, t), Null)
        recorded == [ st.result EXCEPT
                        !.results = (t :> task_result(started, t)) @@ @ ]
    IN [ tasks |-> CASE outcome = "returns" -> completed
                     [] outcome = "handler_raises" ->
                            update_task_status(known, started, t, FAILED,
                                               Null, error_msg(t))
                     [] OTHER ->
                            update_task_status(known, completed, t, FAILED,
                                               Null, error_msg(t)),
         result |-> CASE outcome = "returns" ->
                            [ recorded EXCEPT !.tasks_completed = @ + 1 ]
                      [] outcome = "handler_raises" ->
                            [ task_failed(st.result, t) EXCEPT !.tasks_failed = @ + 1 ]
                      [] OTHER ->
                            [ task_failed(recorded, t) EXCEPT !.tasks_failed = @ + 1 ],
         executed |-> st.executed \cup {t},
         order |-> Append(st.order, t) ]

RECURSIVE execute_snapshot(_, _, _, _)
\* for task in ready_not_executed: ...
execute_snapshot(known, st, snapshot, outcomes) ==
    IF snapshot = << >> THEN st
    ELSE execute_snapshot(known,
                          execute_task(known, st, Head(snapshot),
                                       outcomes[Head(snapshot)]),
                          Tail(snapshot), outcomes)

RECURSIVE execute_sequential(_, _, _)
\* AgentOrchestrator._execute_sequential; the RuntimeError is the result
\* finalised by strategy_raised
execute_sequential(known, st, outcomes) ==
    IF Cardinality(st.executed) >= Cardinality(DOMAIN st.tasks) THEN st
    ELSE LET snapshot == ready_not_executed(st.tasks, st.executed)
         IN IF snapshot = << >>
            THEN IF st.executed # {} THEN st
                 ELSE [ st EXCEPT !.result = strategy_raised(@, DeadlockMsg) ]
            ELSE execute_sequential(known,
                                    execute_snapshot(known, st, snapshot, outcomes),
                                    outcomes)

RECURSIVE execute_parallel_one_per_pass(_, _, _)
\* execute_parallel computing the ready tasks again after every task
execute_parallel_one_per_pass(known, st, outcomes) ==
    IF Cardinality(st.executed) >= Cardinality(DOMAIN st.tasks) THEN st
    ELSE LET ready_tasks == get_ready_tasks(st.tasks)
             snapshot == SelectSeq(ready_tasks, LAMBDA t : t \notin st.executed)
         IN IF snapshot = << >>
            THEN IF st.executed # {} THEN st
                 ELSE [ st EXCEPT !.result = strategy_raised(@, DeadlockMsg) ]
            ELSE execute_parallel_one_per_pass(known,
                                  execute_snapshot(known, st, << Head(snapshot) >>,
                                                   outcomes),
                                  outcomes)

RECURSIVE execute_parallel(_, _, _)
\* AgentOrchestrator._execute_parallel
execute_parallel(known, st, outcomes) ==
    IF Cardinality(st.executed) >= Cardinality(DOMAIN st.tasks) THEN st
    ELSE LET ready_tasks == get_ready_tasks(st.tasks)
             snapshot == SelectSeq(ready_tasks, LAMBDA t : t \notin st.executed)
         IN IF snapshot = << >>
            THEN IF st.executed # {} THEN st
                 ELSE [ st EXCEPT !.result = strategy_raised(@, DeadlockMsg) ]
            ELSE execute_parallel(known,
                                  execute_snapshot(known, st, snapshot, outcomes),
                                  outcomes)

\* AgentOrchestrator._execute_hybrid
execute_hybrid(known, st, outcomes) == execute_sequential(known, st, outcomes)

\* _execute_workflow_tasks, lines 114-150, in the given mode
execute_workflow_tasks_in(mode, known, ts, outcomes) ==
    IF DOMAIN ts = {}
    THEN [ StrategyState(ts, ExecutionResult(ts)) EXCEPT
             !.result = [ @ EXCEPT !.status = "completed", !.success = TRUE,
                                   !.completed_at = "set" ] ]
    ELSE LET st0 == StrategyState(ts, ExecutionResult(ts))
             st == CASE mode = "sequential" -> execute_sequential(known, st0, outcomes)
                     [] mode = "parallel" -> execute_parallel(known, st0, outcomes)
                     [] OTHER -> execute_hybrid(known, st0, outcomes)
         IN IF st.result.status = "failed" THEN st
            ELSE [ st EXCEPT !.result = strategy_returned(@) ]

\* AgentOrchestrator(config with the mode)._execute_workflow_tasks(workflow)
run_in_mode ==
    /\ pc = "idle"
    /\ attempts = 0
    /\ \E mode \in WorkflowMode, outcomes \in OutcomePatterns(tasks) :
        LET st == execute_workflow_tasks_in(mode, orchestrator_knows, tasks, outcomes)
        IN /\ tasks' = st.tasks
           /\ result' = st.result
           /\ executed' = st.executed
           /\ raises' = Cardinality({ t \in st.executed : outcomes[t] # "returns" })
           /\ last_call' = [ op |-> "_execute_workflow_tasks", mode |-> mode,
                             outcomes |-> outcomes, order |-> st.order,
                             ret |-> TRUE ]
           /\ status_writer' = IF tasks' # tasks THEN "update_task_status"
                               ELSE status_writer
    /\ attempts' = 1
    /\ entry' = "run_existing"
    /\ pc' = "done"
    /\ UNCHANGED << store, workflows, task_order, wf_status, estimated_total_duration,
                    task_counter, queue, cur, executions >>

\* a workflow run in a mode has at most this many tasks
MaxModeTasks == 3

\* every assignment of no or one dependency to each of n tasks
ModeGraphs ==
    UNION { [ 1..n -> {{}} \cup { {d} : d \in 1..n } ] : n \in 0..MaxModeTasks }

InitMode ==
    /\ store \in {"own", "api"}
    /\ \E g \in ModeGraphs :
        /\ tasks = [ i \in DOMAIN g |-> GraphTask(i, Ascending(g[i])) ]
        /\ task_order = Ascending(DOMAIN g)
        /\ task_counter = Cardinality(DOMAIN g)
    /\ workflows = store_workflow(<< >>, generate_workflow_id(1, << >>), task_order)
    /\ wf_status = "planning"
    /\ estimated_total_duration = 0
    /\ pc = "idle"
    /\ entry = "none"
    /\ executed = {}
    /\ queue = << >>
    /\ cur = 0
    /\ result = NoResult
    /\ executions = NoResult
    /\ attempts = 0
    /\ raises = 0
    /\ last_call = [ op |-> "none", ret |-> TRUE ]
    /\ status_writer = "none"

NextMode ==
    \/ run_in_mode

SpecMode == InitMode /\ [][NextMode]_vars

-----------------------------------------------------------------------------
(* Specification: one PlannerAgent plans several workflows, one after the    *)
(* other; the workflow followed is the one planned last                      *)

\* the planner plans at most this many workflows
MaxWorkflows == 3

\* the clock's second at a call of plan_workflow: two calls fall in the same
\* second or in different ones
Timestamps == {1, 2}

\* goals with at most one of the planner's keywords
SingleWordGoals == { g \in Goals : Cardinality(g) <= 1 }

\* PlannerAgent.plan_workflow(goal) on a planner that may hold workflows
plan_next_workflow ==
    /\ pc = "idle"
    /\ Cardinality(DOMAIN workflows) < MaxWorkflows
    /\ \E goal \in SingleWordGoals, timestamp \in Timestamps :
        /\ tasks' = plan_tasks(goal, task_counter)
        /\ task_order' = plan_order(goal, task_counter)
        /\ estimated_total_duration' = calculate_duration(tasks')
        /\ task_counter' = task_counter + Len(decompose_goal(goal))
        /\ workflows' = store_workflow(workflows,
                            generate_workflow_id(timestamp, workflows), task_order')
        /\ last_call' = [ op |-> "plan_workflow",
                          workflow_id |-> generate_workflow_id(timestamp, workflows),
                          ret |-> TRUE ]
    /\ wf_status' = "ready"
    /\ store' = "api"
    /\ UNCHANGED << pc, entry, executed, queue, cur, result, executions,
                    attempts, raises, status_writer >>

NextPlanner ==
    \/ plan_next_workflow

SpecPlanner == Init /\ [][NextPlanner]_vars

-----------------------------------------------------------------------------
(* Dependency closure *)

RECURSIVE closure(_, _)
closure(ts, S) ==
    LET N == S \cup UNION { Range(ts[u].dependencies) : u \in S }
    IN IF N = S THEN S ELSE closure(ts, N)

\* the tasks t depends on, directly or transitively
Ancestors(ts, t) == closure(ts, Range(ts[t].dependencies))

\* _execute_workflow_tasks has just returned and its strategy did not raise
ReturnedNormally == pc = "done" /\ result.status # "failed"

-----------------------------------------------------------------------------
(* Claims *)

\* C1: get_ready_tasks returns exactly the tasks whose status is PENDING or
\* READY and all of whose dependencies are COMPLETED, each once; so it never
\* returns a task that has a dependency that is not COMPLETED.
C1_ReadyExactlyWhenDepsCompleted ==
    LET r == get_ready_tasks(tasks)
    IN /\ Range(r) = { t \in DOMAIN tasks :
                         /\ tasks[t].status \in {PENDING, READY}
                         /\ \A d \in Range(tasks[t].dependencies) :
                               tasks[d].status = COMPLETED }
       /\ Len(r) = Cardinality(Range(r))
       /\ \A t \in Range(r) : \A d \in Range(tasks[t].dependencies) :
             tasks[d].status = COMPLETED

\* a run in which a dependency has failed, so that its dependent is withheld,
\* while another task is ready and one task has completed
C1_Witness ==
    /\ get_ready_tasks(tasks) # << >>
    /\ \E t \in DOMAIN tasks :
          /\ tasks[t].status = PENDING
          /\ \E d \in Range(tasks[t].dependencies) : tasks[d].status = FAILED
    /\ \E t \in DOMAIN tasks :
          /\ tasks[t].status = COMPLETED
          /\ \E u \in DOMAIN tasks : t \in Range(tasks[u].dependencies)

\* C2: every Task satisfies: COMPLETED implies completed_at set and result
\* non-null; FAILED implies completed_at set and error non-null; PENDING, READY
\* or BLOCKED implies completed_at, result and error all null.
C2_LifecycleFields ==
    \A t \in DOMAIN tasks :
        /\ tasks[t].status = COMPLETED =>
              tasks[t].completed_at # Null /\ tasks[t].result # Null
        /\ tasks[t].status = FAILED =>
              tasks[t].completed_at # Null /\ tasks[t].error # Null
        /\ tasks[t].status \in {PENDING, READY, BLOCKED} =>
              /\ tasks[t].completed_at = Null
              /\ tasks[t].result = Null
              /\ tasks[t].error = Null

\* C3: when an execution returns normally, every task it left un-dispatched
\* and still PENDING or READY depends, directly or transitively, on a task
\* that FAILED; all other eligible tasks were dispatched.
C3_OnlyDependentsOfFailedSkipped ==
    ReturnedNormally =>
        \A t \in DOMAIN tasks \ executed :
            tasks[t].status \in {PENDING, READY} =>
                \E a \in Ancestors(tasks, t) : tasks[a].status = FAILED

\* C4: when _execute_workflow_tasks returns, every task whose handler raised
\* in this attempt is FAILED with its error recorded, the error string is in
\* result.errors, and every task that transitively depends on it was not
\* dispatched, is not offered as ready and is still PENDING (BLOCKED if it was
\* cancelled before the attempt); for the chain 1 -> 2 with the handler of
\* task 1 raising: success false, tasks_failed 1, tasks_completed 0.
C4_HandlerFailureRecorded ==
    pc = "done" =>
        \A t \in executed \ DOMAIN result.results :
            /\ tasks[t].status = FAILED
            /\ tasks[t].error = error_msg(t)
            /\ error_msg(t) \in Range(result.errors)
            /\ \A u \in DOMAIN tasks :
                  t \in Ancestors(tasks, u) =>
                      /\ u \notin executed
                      /\ u \notin Range(get_ready_tasks(tasks))
                      /\ tasks[u].status \in {PENDING, BLOCKED}
            /\ ( /\ DOMAIN tasks = {1, 2}
                 /\ tasks[1].dependencies = << >>
                 /\ tasks[2].dependencies = << 1 >>
                 /\ t = 1 )
               => /\ result.success = FALSE
                  /\ result.tasks_failed = 1
                  /\ result.tasks_completed = 0

\* C5: if the first readiness computation of an attempt finds no ready task
\* (nothing executed yet), _execute_workflow_tasks returns a result with status
\* "failed", success false, the error recorded, completed_at set, and no task
\* is dispatched or changed.
C5_DeadlockReturnsFailedResult ==
    [][ ( /\ pc = "loop"
          /\ executed = {}
          /\ DOMAIN tasks # {}
          /\ get_ready_tasks(tasks) = << >> )
        => /\ pc' = "done"
           /\ result'.status = "failed"
           /\ result'.success = FALSE
           /\ result'.errors = << DeadlockMsg >>
           /\ result'.completed_at # Null
           /\ result'.tasks_completed = 0
           /\ result'.tasks_failed = 0
           /\ result'.results = << >>
           /\ executed' = {}
           /\ tasks' = tasks ]_vars

\* an attempt on tasks that are all PENDING (so neither blocked nor terminal:
\* a dependency cycle) has returned the failed result
C5_Witness ==
    /\ pc = "done"
    /\ result.status = "failed"
    /\ DOMAIN tasks # {}
    /\ \A t \in DOMAIN tasks : tasks[t].status = PENDING

\* C6: the result _execute_workflow_tasks returns has completed_at set and a
\* status other than "running"; when the strategy returned, success equals
\* (tasks_failed = 0) and status is "completed" if success and
\* "completed_with_errors" otherwise; when the strategy raised, status is
\* "failed" and success is false; without tasks: success and "completed".
C6_ResultFinalised ==
    pc = "done" =>
        /\ result.completed_at # Null
        /\ result.status \in {"completed", "completed_with_errors", "failed"}
        /\ (DeadlockMsg \in Range(result.errors)) <=> (result.status = "failed")
        /\ result.status = "failed" => result.success = FALSE
        /\ result.status # "failed" =>
              /\ result.success = (result.tasks_failed = 0)
              /\ result.status = IF result.success THEN "completed"
                                 ELSE "completed_with_errors"
        /\ DOMAIN tasks = {} =>
              result.success = TRUE /\ result.status = "completed"

\* an attempt on a workflow without tasks has returned
C6_Witness ==
    /\ pc = "done"
    /\ DOMAIN tasks = {}
    /\ result.success = TRUE
    /\ result.status = "completed"

\* C7: the first execution of a planned workflow whose handlers all return
\* dispatches every task and ends with every task COMPLETED, tasks_completed
\* equal to tasks_total and success true, for plan-and-run and for
\* run-existing alike.
C7_AllCompletedWhenHandlersReturn ==
    (pc = "done" /\ attempts = 1 /\ raises = 0) =>
        /\ executed = DOMAIN tasks
        /\ \A t \in DOMAIN tasks : tasks[t].status = COMPLETED
        /\ result.tasks_completed = result.tasks_total
        /\ result.success = TRUE

\* C8: the Orchestrator changes a Task's status only through
\* PlannerAgent.update_task_status, never by assigning it directly.
C8_StatusWrittenThroughPlanner == status_writer # "direct"

AllowedTransitions ==
    { << PENDING, READY >>, << READY, IN_PROGRESS >>, << PENDING, IN_PROGRESS >>,
      << IN_PROGRESS, COMPLETED >>, << IN_PROGRESS, FAILED >>,
      << PENDING, BLOCKED >>, << READY, BLOCKED >>, << FAILED, PENDING >> }

\* C9: every change of a task's status is PENDING -> READY -> IN_PROGRESS ->
\* COMPLETED | FAILED (PENDING or READY as the source of IN_PROGRESS),
\* PENDING/READY -> BLOCKED or FAILED -> PENDING; in particular COMPLETED and
\* BLOCKED tasks never change status.
C9_StatusStateMachine ==
    [][ \A t \in DOMAIN tasks \cap DOMAIN tasks' :
          tasks'[t].status # tasks[t].status =>
              << tasks[t].status, tasks'[t].status >> \in AllowedTransitions ]_vars

\* C10: cancel_workflow on a workflow the orchestrator's planner holds returns
\* true, sets every PENDING or READY task to BLOCKED and changes nothing else;
\* on an unknown workflow id it returns false and changes nothing; a second
\* cancellation changes nothing.
C10_CancelFrame ==
    [][ last_call'.op = "cancel_workflow" =>
          /\ last_call'.ret = (store = "own")
          /\ last_call'.ret =>
                tasks' = [ t \in DOMAIN tasks |->
                             IF tasks[t].status \in {PENDING, READY}
                             THEN [ tasks[t] EXCEPT !.status = BLOCKED ]
                             ELSE tasks[t] ]
          /\ ~last_call'.ret => tasks' = tasks
          /\ last_call.op = "cancel_workflow" => tasks' = tasks
          /\ UNCHANGED << store, workflows, task_order, wf_status, estimated_total_duration,
                          task_counter, result, executions >> ]_vars

\* a cancellation has returned true on a workflow with a COMPLETED and a
\* FAILED task, which kept their status, and a task it moved to BLOCKED
C10_Witness ==
    /\ last_call = [ op |-> "cancel_workflow", ret |-> TRUE ]
    /\ \E t \in DOMAIN tasks : tasks[t].status = COMPLETED
    /\ \E t \in DOMAIN tasks : tasks[t].status = FAILED
    /\ \E t \in DOMAIN tasks : tasks[t].status = BLOCKED

\* C11: a task that cancel_workflow moved to BLOCKED before it was ever
\* started (started_at null) is never dispatched, i.e. never moved to
\* IN_PROGRESS, afterwards; also not when the cancellation came during an
\* execution whose readiness snapshot already contains the task.
C11_CancelledNeverDispatched ==
    [][ \A t \in DOMAIN tasks :
          (tasks[t].status = BLOCKED /\ tasks[t].started_at = Null) =>
              tasks'[t].status # IN_PROGRESS ]_vars

\* C12: retry_failed_task returns true exactly when the workflow id names a
\* workflow of the orchestrator's planner, the task id names one of its tasks
\* and that task is FAILED, and it then sets that task's status to PENDING;
\* in every other case it returns false and no task changes; in both cases
\* no other task and nothing else of the workflow, of the result or of the
\* recorded executions changes.
C12_RetryContract ==
    [][ last_call'.op = "retry_failed_task" =>
          LET id == last_call'.task_id
              ok == /\ last_call'.workflow_id = "wf"
                    /\ store = "own"
                    /\ id \in DOMAIN tasks
                    /\ tasks[id].status = FAILED
          IN /\ last_call'.ret = ok
             /\ ok => /\ tasks'[id].status = PENDING
                      /\ \A t \in DOMAIN tasks \ {id} : tasks'[t] = tasks[t]
                      /\ DOMAIN tasks' = DOMAIN tasks
             /\ ~ok => tasks' = tasks
             /\ UNCHANGED << store, workflows, task_order, wf_status,
                             estimated_total_duration, task_counter, result,
                             executions >> ]_vars

\* a retry has returned true for a task, which is now PENDING, in a workflow
\* that has another task, which is COMPLETED
C12_Witness ==
    /\ last_call.op = "retry_failed_task"
    /\ last_call.ret = TRUE
    /\ tasks[last_call.task_id].status = PENDING
    /\ \E t \in DOMAIN tasks : tasks[t].status = COMPLETED

\* a task that failed and was reset by retry_failed_task keeps its error
\* while it waits to be dispatched again
Retried(ts, t) == ts[t].status = PENDING /\ ts[t].error # Null

\* C13: (1) when retry_failed_task succeeds on a task whose dependencies are
\* all COMPLETED, get_ready_tasks returns the task; (2) an execution attempt
\* does not return while such a task is still waiting, so it dispatched it;
\* (3) once the handler of a task that had failed before has returned, the
\* task is and stays COMPLETED; (4) when the attempt returns, every task that
\* is ready (so every dependent such a task made ready) has been dispatched
\* in that attempt.
C13_RetryRoundTrip ==
    [][ /\ (Idle /\ last_call'.op = "retry_failed_task" /\ last_call'.ret) =>
              \A t \in DOMAIN tasks :
                  (tasks[t].status = FAILED /\ tasks'[t].status = PENDING
                      /\ deps_met(tasks', t)) =>
                      t \in Range(get_ready_tasks(tasks'))
        /\ (pc = "loop" /\ pc' = "done") =>
              /\ \A t \in DOMAIN tasks' :
                    ~(Retried(tasks', t) /\ deps_met(tasks', t))
              /\ store = "own" =>
                    Range(get_ready_tasks(tasks')) \subseteq executed'
        /\ (pc = "review" /\ tasks[cur].error # Null) =>
              /\ tasks[cur].status = COMPLETED
              /\ tasks'[cur].status = COMPLETED ]_vars

\* C14: update_task_status returns false and changes nothing when the workflow
\* id or the task id is unknown; otherwise it returns true, sets the task's
\* status to the one given, sets started_at when that is IN_PROGRESS,
\* completed_at and result when it is COMPLETED, completed_at and error when
\* it is FAILED, and changes no other task and nothing else.
C14_UpdateTaskStatusContract ==
    [][ last_call'.op = "update_task_status" =>
          LET c == last_call'
              id == c.task_id
              ok == c.workflow_id = "wf" /\ id \in DOMAIN tasks
          IN /\ c.ret = ok
             /\ ~ok => tasks' = tasks
             /\ ok =>
                  /\ DOMAIN tasks' = DOMAIN tasks
                  /\ \A t \in DOMAIN tasks \ {id} : tasks'[t] = tasks[t]
                  /\ tasks'[id].status = c.status
                  /\ c.status = IN_PROGRESS => tasks'[id].started_at # Null
                  /\ c.status = COMPLETED =>
                        /\ tasks'[id].completed_at # Null
                        /\ tasks'[id].result = c.result
                  /\ c.status = FAILED =>
                        /\ tasks'[id].completed_at # Null
                        /\ tasks'[id].error = c.error
             /\ UNCHANGED << store, workflows, task_order, wf_status,
                             estimated_total_duration, task_counter, result,
                             executions >> ]_vars

\* update_task_status has returned true for FAILED on a task that was PENDING
\* (its completed_at is now set) in a workflow with a second task
C14_Witness ==
    /\ last_call.op = "update_task_status"
    /\ last_call.ret = TRUE
    /\ last_call.status = FAILED
    /\ last_call.error = "error"
    /\ tasks[last_call.task_id].status = FAILED
    /\ tasks[last_call.task_id].started_at = Null
    /\ tasks[last_call.task_id].completed_at # Null
    /\ Cardinality(DOMAIN tasks) = 2

\* C15: a call of an entry point with a workflow id nobody planned, with a
\* task id that names no task of the workflow, or for an execution that was
\* never recorded, returns (it does not raise)
\* and changes no state: get_workflow, get_workflow_progress, get_execution
\* and get_workflow_status return None, get_next_tasks returns the empty
\* list, update_task_status, cancel_workflow and retry_failed_task return
\* false.
C15_UnknownIdsReturnSentinel ==
    [][ LET c == last_call'
        IN (/\ c.op \in {"get_workflow", "get_workflow_progress",
                          "get_next_tasks", "get_execution",
                          "get_workflow_status", "update_task_status",
                          "cancel_workflow", "retry_failed_task"}
            /\ \/ c.workflow_id = "unknown"
               \/ /\ c.op \in {"update_task_status", "retry_failed_task"}
                  /\ c.task_id \notin DOMAIN tasks
               \/ /\ c.op \in {"get_execution", "get_workflow_status"}
                  /\ executions = NoResult)
           => /\ CASE c.op = "get_next_tasks" -> c.ret = << >>
                   [] c.op \in {"update_task_status", "cancel_workflow",
                                "retry_failed_task"} -> c.ret = FALSE
                   [] OTHER -> c.ret = None
              /\ UNCHANGED << store, workflows, tasks, task_order, wf_status,
                              estimated_total_duration, task_counter, pc,
                              entry, executed, queue, cur, result, executions,
                              attempts, raises, status_writer >> ]_vars

\* retry_failed_task has returned false for a known workflow of the
\* orchestrator's planner and a task id that names none of its tasks, one of
\* which is FAILED
C15_Witness ==
    /\ last_call.op = "retry_failed_task"
    /\ last_call.workflow_id = "wf"
    /\ last_call.task_id \notin DOMAIN tasks
    /\ last_call.ret = FALSE
    /\ store = "own"
    /\ \E t \in DOMAIN tasks : tasks[t].status = FAILED

\* C16: what a read operation returns for a known id differs from what it
\* returns for an unknown id: get_workflow, get_workflow_progress,
\* get_next_tasks (also when the known workflow has no ready task),
\* get_execution and get_workflow_status (when an execution is recorded).
C16_NotFoundDistinguishable ==
    LET c == last_call
    IN /\ (c.op = "get_workflow" /\ c.workflow_id = "wf") =>
              c.ret # get_workflow(planner_has("unknown"), tasks)
       /\ (c.op = "get_workflow_progress" /\ c.workflow_id = "wf") =>
              c.ret # get_workflow_progress(planner_has("unknown"), tasks)
       /\ (c.op = "get_next_tasks" /\ c.workflow_id = "wf") =>
              c.ret # get_next_tasks(planner_has("unknown"), tasks)
       /\ (c.op = "get_execution" /\ c.workflow_id = "wf"
             /\ executions # NoResult) =>
              c.ret # get_execution("unknown", executions)
       /\ (c.op = "get_workflow_status" /\ c.workflow_id = "wf"
             /\ executions # NoResult) =>
              c.ret # get_workflow_status("unknown", orchestrator_has("unknown"),
                                          executions, tasks)

\* C17: get_ready_tasks returns the ready tasks ordered CRITICAL, HIGH,
\* MEDIUM, LOW, tasks of equal priority in the insertion order of the task
\* map (the order of task_order); the snapshot an attempt takes is in that
\* order and the attempt dispatches its tasks from the front, so that every
\* task still waiting in the snapshot comes after the dispatched one.
C17_PriorityOrder ==
    [][ LET Rank(t) == CASE tasks[t].priority = "critical" -> 0
                         [] tasks[t].priority = "high" -> 1
                         [] tasks[t].priority = "medium" -> 2
                         [] tasks[t].priority = "low" -> 3
            Pos(t) == CHOOSE i \in DOMAIN task_order : task_order[i] = t
            Before(t, u) == \/ Rank(t) < Rank(u)
                            \/ Rank(t) = Rank(u) /\ Pos(t) < Pos(u)
            Ordered(q) == \A i, j \in DOMAIN q : i < j => Before(q[i], q[j])
        IN /\ Ordered(get_ready_tasks(tasks))
           /\ (pc = "loop" /\ pc' = "dispatch") =>
                 /\ Ordered(queue')
                 /\ Range(queue') = Range(get_ready_tasks(tasks)) \ executed
           /\ (pc = "dispatch" /\ pc' = "handler") =>
                 /\ cur' = Head(queue)
                 /\ \A u \in Range(queue') : Before(cur', u)
                 /\ Range(queue') = Range(queue) \ {cur'} ]_vars

\* a task has been dispatched ahead of a task of lower priority that was
\* inserted before it and waits in the same snapshot
C17_Witness ==
    /\ pc = "handler"
    /\ \E u \in Range(queue) :
          /\ u < cur
          /\ tasks[u].priority = "medium"
          /\ tasks[cur].priority = "high"

\* C18: during an attempt the ready tasks are computed again only when every
\* task of the current snapshot has been attempted (while a snapshot is being
\* worked off it only shrinks from the front, and the loop is re-entered only
\* with the snapshot empty and the last task recorded as executed), and when
\* a task is dispatched every one of its dependencies is COMPLETED.
C18_DispatchAfterDependencies ==
    [][ /\ pc \in {"dispatch", "handler", "review"} =>
              /\ queue' = queue \/ queue' = Tail(queue)
              /\ pc' = "loop" => (queue' = << >> /\ cur \in executed')
        /\ (pc = "loop" /\ pc' = "dispatch") => queue = << >>
        /\ (pc = "dispatch" /\ pc' = "handler") =>
              \A d \in Range(tasks[cur'].dependencies) :
                  /\ tasks[d].status = COMPLETED
                  /\ tasks'[d].status = COMPLETED ]_vars

\* a task with a dependency is IN_PROGRESS while another task of the same
\* snapshot is still waiting
C18_Witness ==
    /\ pc = "handler"
    /\ tasks[cur].status = IN_PROGRESS
    /\ tasks[cur].dependencies # << >>
    /\ queue # << >>

\* C19: a task whose handler returned and whose output the critic reviewed
\* ends COMPLETED and is counted in tasks_completed, whatever the verdict:
\* the step that records the verdict changes nothing but result.reviews, the
\* steps after it do not depend on result.reviews, and the task is then
\* COMPLETED with tasks_completed one higher and tasks_failed as before.
C19_VerdictIsAdvisory ==
    [][ /\ (pc = "review" /\ pc' = "summarize") =>
              /\ result' = [ result EXCEPT !.reviews = result'.reviews ]
              /\ UNCHANGED << store, workflows, tasks, task_order, wf_status,
                              estimated_total_duration, task_counter, entry,
                              executed, queue, cur, executions, attempts,
                              raises, last_call, status_writer >>
        /\ pc = "summarize" =>
              /\ tasks'[cur].status = COMPLETED
              /\ result'.tasks_completed = result.tasks_completed + 1
              /\ result'.tasks_failed = result.tasks_failed
              /\ result'.reviews = result.reviews
              /\ executed' = executed \cup {cur}
              /\ pc' = IF queue = << >> THEN "loop" ELSE "dispatch" ]_vars

\* C20: when an execution attempt has returned, the orchestrator that ran it
\* has recorded that attempt's result: get_execution(workflow.id) returns it,
\* and get_workflow_status(workflow.id) reports its status, counters and
\* success flag; neither returns None; for plan-and-run and for run-existing.
C20_ExecutionRecorded ==
    pc = "done" =>
        /\ get_execution("wf", executions) = Some(result)
        /\ get_workflow_status("wf", orchestrator_has("wf"), executions, tasks)
             = Some([ status |-> result.status,
                      progress |-> get_progress(tasks),
                      tasks_completed |-> result.tasks_completed,
                      tasks_failed |-> result.tasks_failed,
                      success |-> result.success ])

\* C21: the workflow's status is "ready" when plan_workflow returns, "running"
\* while an execution of the workflow is under way, "completed" or "failed"
\* once that execution has returned, and it never moves backwards along
\* planning, ready, running, completed|failed.
C21_WorkflowStatusLifecycle ==
    [][ LET Stage(s) == CASE s \in {"none", "planning"} -> 0
                          [] s = "ready" -> 1
                          [] s = "running" -> 2
                          [] OTHER -> 3
        IN /\ last_call'.op = "plan_workflow" => wf_status' = "ready"
           /\ Running' => wf_status' = "running"
           /\ pc' = "done" => wf_status' \in {"completed", "failed"}
           /\ Stage(wf_status) <= Stage(wf_status') ]_vars

\* the actions of the tasks in the order of task_order
plan_actions == [ i \in DOMAIN task_order |-> tasks[task_order[i]].action ]

\* C22: for the goal "Create a daily briefing" plan_workflow produces exactly
\* 4 tasks with the actions query_docs, extract_key_points, synthesize,
\* format; extract_key_points and format depend directly or transitively on
\* query_docs, synthesize depends on extract_key_points, and the estimated
\* total duration is 55.
C22_DailyBriefingPlan ==
    (last_call.op = "plan_workflow" /\ last_call.goal = {"create", "briefing"}) =>
        LET A(a) == { t \in DOMAIN tasks : tasks[t].action = a }
        IN /\ plan_actions = << "query_docs", "extract_key_points",
                                "synthesize", "format" >>
           /\ \A t \in A("extract_key_points") \cup A("format") :
                 A("query_docs") \cap Ancestors(tasks, t) # {}
           /\ \A t \in A("synthesize") :
                 A("extract_key_points") \cap Ancestors(tasks, t) # {}
           /\ estimated_total_duration = 55

\* the workflow consists of the three tasks of the default template, without
\* dependencies
IsDefaultPlan(ts, order) ==
    /\ Len(order) = 3
    /\ DOMAIN ts = Range(order)
    /\ [ i \in 1..3 |-> ts[order[i]].action ] = << "analyze", "execute", "validate" >>
    /\ \A t \in DOMAIN ts : ts[t].dependencies = << >>

\* C23: planning never fails: plan_workflow returns a workflow with tasks for
\* every goal, and for a goal without any family keyword (the empty goal
\* included) exactly the 3 default tasks analyze, execute, validate, which
\* have no dependencies; all three are ready at once, the first snapshot of
\* an execution of the new workflow holds all three, and the execution takes
\* no second snapshot: when the first is worked off all three were dispatched.
C23_DefaultPlan ==
    [][ /\ (store = "none" /\ store' # "none") =>
              /\ DOMAIN tasks' # {}
              /\ wf_status' = "ready"
              /\ LET d == plan_tasks({}, task_counter)
                     o == plan_order({}, task_counter)
                 IN /\ IsDefaultPlan(d, o)
                    /\ Range(get_ready_tasks(d)) = DOMAIN d
        /\ (/\ IsDefaultPlan(tasks, task_order)
            /\ pc = "loop"
            /\ executed = {}
            /\ \A t \in DOMAIN tasks : tasks[t].status = PENDING) =>
              /\ pc' = "dispatch"
              /\ Range(queue') = DOMAIN tasks
              /\ Len(queue') = 3
        /\ (IsDefaultPlan(tasks, task_order) /\ pc = "loop" /\ executed # {}) =>
              pc' = "done"
        /\ (/\ IsDefaultPlan(tasks, task_order)
            /\ pc = "loop" /\ pc' = "done"
            /\ attempts = 1) =>
              executed = DOMAIN tasks ]_vars

\* the first execution of a default plan has dispatched all three tasks and
\* is back at the head of the loop
C23_Witness ==
    /\ IsDefaultPlan(tasks, task_order)
    /\ pc = "loop"
    /\ attempts = 1
    /\ executed = DOMAIN tasks
    /\ \A t \in DOMAIN tasks : tasks[t].status = COMPLETED

\* C24: in the workflow plan_workflow returns, for every combination of
\* matched keyword families, every dependency id is a key of the workflow's
\* own task map, no task depends on itself, no dependency list contains an
\* id twice, and the dependency graph has no cycle.
C24_DependenciesWellFormed ==
    last_call.op = "plan_workflow" =>
        \A t \in DOMAIN tasks :
            LET deps == tasks[t].dependencies
            IN /\ Range(deps) \subseteq DOMAIN tasks
               /\ t \notin Range(deps)
               /\ Len(deps) = Cardinality(Range(deps))
               /\ t \notin Ancestors(tasks, t)

\* a plan for a goal that matches all five families: 16 tasks, one of them
\* with three dependencies, by a planner that had planned before
C24_Witness ==
    /\ last_call.op = "plan_workflow"
    /\ Cardinality(DOMAIN tasks) = 16
    /\ task_counter > 16
    /\ \E t \in DOMAIN tasks : Len(tasks[t].dependencies) = 3

\* C25: in the workflow plan_workflow returns, for every combination of
\* matched keyword families, each dependency of a task was created before
\* the task: it precedes the task in task_order.
C25_ForwardReferencesOnly ==
    last_call.op = "plan_workflow" =>
        \A i \in DOMAIN task_order :
            \A d \in Range(tasks[task_order[i]].dependencies) :
                \E j \in 1..(i - 1) : task_order[j] = d

\* C26: in every reachable state task_order contains each key of the task
\* map exactly once and nothing else (same size, same members), and no
\* operation after planning changes the key set or task_order.
C26_TaskOrderIsPermutation ==
    [][ /\ Range(task_order) = DOMAIN tasks
        /\ Len(task_order) = Cardinality(DOMAIN tasks)
        /\ Range(task_order') = DOMAIN tasks'
        /\ Len(task_order') = Cardinality(DOMAIN tasks')
        /\ store # "none" =>
              /\ task_order' = task_order
              /\ DOMAIN tasks' = DOMAIN tasks ]_vars

\* a retry has succeeded after an execution attempt on a plan of two
\* families
C26_Witness ==
    /\ last_call.op = "retry_failed_task"
    /\ last_call.ret = TRUE
    /\ attempts >= 1
    /\ Len(task_order) >= 6
    /\ \E t \in DOMAIN tasks : tasks[t].status = COMPLETED

\* C27: get_progress returns counts with total = completed + failed +
\* in_progress + blocked + pending, where pending is the number of tasks that
\* are PENDING or READY and is not negative, and completion_percentage =
\* completed / total * 100 (0 for a workflow without tasks); it changes no
\* state, so that it returns the same as long as no task changes; after a
\* successful execution of a workflow with a single task it reports
\* completed 1, total 1 and completion_percentage 100.
C27_Progress ==
    [][ LET p == get_progress(tasks)
            Count(S) == Cardinality({ t \in DOMAIN tasks : tasks[t].status \in S })
        IN /\ p.total = Cardinality(DOMAIN tasks)
           /\ p.total = p.completed + p.failed + p.in_progress + p.blocked
                          + p.pending
           /\ p.completed = Count({COMPLETED})
           /\ p.pending = Count({PENDING, READY})
           /\ p.pending >= 0
           /\ p.completion_percentage.num * p.total
                 = p.completed * 100 * p.completion_percentage.den
           /\ p.total = 0 => p.completion_percentage.num = 0
           /\ tasks' = tasks => get_progress(tasks') = p
           /\ (pc = "done" /\ result.success /\ p.total = 1) =>
                 /\ p.completed = 1
                 /\ p.completion_percentage.num = 100 * p.completion_percentage.den ]_vars

\* C28: for a workflow of the orchestrator's planner (so that status updates
\* are recorded), _execute_task marks the task FAILED, appends an error
\* string to result.errors and returns false (the task is counted in
\* tasks_failed) exactly when an exception is raised while the handler is
\* looked up or invoked or COMPLETED and the result are recorded; nothing
\* that happens in the review and summarization steps changes the status of
\* the task, which is COMPLETED by then, or adds an error.
C28_FailedExactlyOnHandlerException ==
    [][ orchestrator_knows =>
          /\ (pc = "handler" /\ pc' # "handler") =>
                /\ (raises' > raises) <=> (tasks'[cur].status = FAILED)
                /\ (raises' > raises) <=> (result'.errors # result.errors)
                /\ (raises' > raises) <=>
                      (result'.tasks_failed = result.tasks_failed + 1)
                /\ (raises' = raises) <=> (tasks'[cur].status = COMPLETED)
          /\ (pc = "review" /\ pc' # "review") =>
                /\ tasks[cur].status = COMPLETED
                /\ tasks' = tasks
                /\ result'.errors = result.errors
                /\ result'.tasks_failed = result.tasks_failed
                /\ result'.tasks_completed = result.tasks_completed + 1 ]_vars

\* C29: every call of _execute_workflow_tasks terminates, whatever the
\* dependency graph and whether handlers return or raise: each iteration of
\* the loop either ends the loop or takes a snapshot that is not empty and
\* holds only tasks not dispatched before in this attempt, every task of the
\* snapshot is dispatched and recorded as executed, so that the set of
\* executed tasks, which holds only tasks of the workflow, grows with every
\* iteration; and an attempt that has started eventually returns.
C29_ExecutionTerminates ==
    /\ [][ /\ (pc = "loop" /\ pc' # "loop") =>
               \/ pc' = "done"
               \/ /\ pc' = "dispatch"
                  /\ queue' # << >>
                  /\ Range(queue') \cap executed = {}
                  /\ Range(queue') \subseteq DOMAIN tasks
                  /\ executed' = executed
           /\ (pc = "dispatch" /\ pc' # "dispatch") =>
                 /\ cur' \in DOMAIN tasks \ executed
                 /\ executed' = executed
           /\ (pc \in {"handler", "review"} /\ pc' \in {"loop", "dispatch"}) =>
                 /\ cur \notin executed
                 /\ executed' = executed \cup {cur}
                 /\ (pc' = "loop") = (queue = << >>)
           /\ Running' => executed' \subseteq DOMAIN tasks' ]_vars
    /\ (Running ~> pc = "done")

\* an attempt has returned after it dispatched some tasks and left a task
\* that is on a dependency cycle or depends on a FAILED task
C29_Witness ==
    /\ pc = "done"
    /\ executed # {}
    /\ executed # DOMAIN tasks
    /\ \E t \in DOMAIN tasks \ executed :
          \/ t \in Ancestors(tasks, t)
          \/ \E d \in Range(tasks[t].dependencies) : tasks[d].status = FAILED

\* C30: within one execution attempt no task is dispatched more than once:
\* a task that is dispatched has not been executed in this attempt and does
\* not wait a second time in the snapshot, the snapshot never holds a task
\* twice or a task already executed, and between tasks the number of tasks
\* counted as completed or failed is the number of tasks executed; also when
\* an executed task is still or again PENDING when readiness is recomputed
\* (its status was not recorded, or retry_failed_task reset it during the
\* run).
C30_DispatchedAtMostOnce ==
    [][ /\ (pc = "dispatch" /\ pc' = "handler") =>
              /\ cur' \notin executed
              /\ cur' \notin Range(queue')
        /\ Running' =>
              /\ Len(queue') = Cardinality(Range(queue'))
              /\ Range(queue') \cap executed' = {}
        /\ pc' \in {"loop", "dispatch", "done"} =>
              result'.tasks_completed + result'.tasks_failed
                = Cardinality(executed') ]_vars

\* an attempt by the orchestrator that holds the workflow has returned: a
\* task failed in it and was reset by retry_failed_task during the run, so
\* that the next readiness computation found it ready again; it was not
\* dispatched a second time, and its dependent was never ready
C30_Witness ==
    /\ pc = "done"
    /\ store = "own"
    /\ Cardinality(DOMAIN tasks) = 2
    /\ Cardinality(executed) = 1
    /\ result.tasks_failed = 1
    /\ \A t \in executed :
          /\ Retried(tasks, t)
          /\ t \in Range(get_ready_tasks(tasks))
          /\ \E u \in DOMAIN tasks \ executed : t \in Range(tasks[u].dependencies)

\* C31: for every workflow and every pattern of outcomes the SEQUENTIAL,
\* PARALLEL and HYBRID modes dispatch the same tasks in the same order and
\* end with the same task statuses and the same ExecutionResult (counters,
\* status, success flag, results and errors).
C31_ModesEquivalent ==
    [][ last_call'.op = "_execute_workflow_tasks" =>
          \A mode \in WorkflowMode :
              LET st == execute_workflow_tasks_in(mode, orchestrator_knows, tasks,
                                                  last_call'.outcomes)
              IN /\ st.order = last_call'.order
                 /\ st.tasks = tasks'
                 /\ st.result = result'
                 /\ st.executed = executed' ]_vars

\* a run in PARALLEL mode of three tasks, the second depending on the first:
\* the third task, which was in the first snapshot, was dispatched before the
\* second, which became ready during that snapshot
C31_Witness ==
    /\ pc = "done"
    /\ last_call.op = "_execute_workflow_tasks"
    /\ last_call.mode = "parallel"
    /\ last_call.order = << 1, 3, 2 >>
    /\ tasks[2].dependencies = << 1 >>
    /\ \A t \in DOMAIN tasks : tasks[t].status = COMPLETED
    /\ result.tasks_completed = 3

\* the tasks that are IN_PROGRESS
InProgress(ts) == { t \in DOMAIN ts : ts[t].status = IN_PROGRESS }

\* C32: at every moment of an execution at most one task is IN_PROGRESS, and
\* it is the task whose handler is running; no task is IN_PROGRESS when the
\* next task is dispatched, and none when _execute_workflow_tasks returns.
C32_OneTaskInProgress ==
    [][ /\ Cardinality(InProgress(tasks')) <= 1
        /\ InProgress(tasks') # {} => (pc' = "handler" /\ InProgress(tasks') = {cur'})
        /\ (pc = "dispatch" /\ pc' = "handler") => InProgress(tasks) = {}
        /\ (pc = "handler" /\ pc' # "handler" /\ orchestrator_knows) =>
              /\ tasks[cur].status = IN_PROGRESS
              /\ tasks'[cur].status \in {COMPLETED, FAILED}
        /\ pc' = "done" => InProgress(tasks') = {} ]_vars

\* the second task of a workflow is IN_PROGRESS after the first has left
\* IN_PROGRESS for COMPLETED
C32_Witness ==
    /\ pc = "handler"
    /\ InProgress(tasks) = {cur}
    /\ \E t \in executed : tasks[t].status = COMPLETED /\ tasks[t].started_at # Null

\* C33: the task list plan_workflow builds is the concatenation, in the order
\* briefing, analysis, retrieval, generation, update, of the templates of
\* exactly the families that have a keyword occurring in the goal; the three
\* default tasks are used if and only if no family matches; description and
\* context do not influence which tasks are created.
C33_PlanIsConcatenationOfTemplates ==
    last_call.op = "plan_workflow" =>
        LET goal == last_call.goal
            Has(words) == \E w \in words : w \in goal
            Part(words, actions) == IF Has(words) THEN actions ELSE << >>
            expected ==
                Part({"briefing", "summary", "report"},
                     << "query_docs", "extract_key_points", "synthesize", "format" >>)
                \o Part({"analyze", "analysis", "examine"},
                        << "query_docs", "analyze_patterns", "synthesize" >>)
                \o Part({"search", "find", "retrieve", "query"},
                        << "query_docs", "rerank", "format" >>)
                \o Part({"generate", "create", "write"},
                        << "plan", "synthesize", "review" >>)
                \o Part({"update", "refresh", "sync"},
                        << "check_updates", "process_updates", "verify" >>)
            default == << "analyze", "execute", "validate" >>
        IN /\ expected # << >> => plan_actions = expected
           /\ expected = << >> => plan_actions = default
           /\ (plan_actions = default) <=> (expected = << >>)
           /\ \A description \in Descriptions, context \in Contexts :
                 LET tpl == decompose_goal_of(goal, description, context)
                 IN [ i \in DOMAIN tpl |-> tpl[i].action ] = plan_actions

\* a plan for a goal that matches the analysis and the update family and no
\* other
C33_Witness ==
    /\ last_call.op = "plan_workflow"
    /\ plan_actions = << "query_docs", "analyze_patterns", "synthesize",
                         "check_updates", "process_updates", "verify" >>

\* C34: after plan_workflow, task u lists task t as a dependency if and only
\* if t and u are distinct tasks of the workflow and the action of u is a
\* consumer of the action of t in the producer-to-consumer table; every such
\* pair gives exactly one entry in u's list, also when t and u come from the
\* templates of different families.
C34_DependenciesFollowTable ==
    last_call.op = "plan_workflow" =>
        \A u \in DOMAIN tasks :
            LET deps == tasks[u].dependencies
            IN /\ \A t \in DOMAIN tasks :
                    (\E i \in DOMAIN deps : deps[i] = t)
                        <=> (t # u /\ tasks[u].action \in action_sequences(tasks[t].action))
               /\ \A i, j \in DOMAIN deps : deps[i] = deps[j] => i = j
               /\ Range(deps) \subseteq DOMAIN tasks

\* a plan in which the synthesize task of the briefing template depends on
\* the plan task of the generation template, which was created after it
C34_Witness ==
    /\ last_call.op = "plan_workflow"
    /\ \E t, u \in DOMAIN tasks :
          /\ u < t
          /\ tasks[u].action = "synthesize"
          /\ tasks[t].action = "plan"
          /\ t \in Range(tasks[u].dependencies)
          /\ Len(tasks[u].dependencies) = 2

RECURSIVE DurationOf(_, _)
\* the estimates of the tasks in S added up
DurationOf(ts, S) ==
    IF S = {} THEN 0
    ELSE LET t == CHOOSE x \in S : TRUE
         IN ts[t].estimated_duration_seconds + DurationOf(ts, S \ {t})

TaskIdsOf(ws, w) == { ws[w][i] : i \in 1..Len(ws[w]) }

\* C36: the task ids of one PlannerAgent are pairwise distinct across all of
\* its stored workflows and increase with creation order (within a workflow
\* and from a workflow to the ones planned after it), and plan_workflow
\* stores the new workflow under an id that no stored workflow has, so that it
\* leaves every stored workflow and its tasks as they were.
C36_IdsDistinct ==
    /\ [](/\ \A w \in DOMAIN workflows :
               \A i, j \in 1..Len(workflows[w]) :
                   i < j => workflows[w][i] < workflows[w][j]
          /\ \A a, b \in DOMAIN workflows :
               a[2] < b[2] =>
                   \A x \in TaskIdsOf(workflows, a), y \in TaskIdsOf(workflows, b) :
                       x < y
          /\ \A a, b \in DOMAIN workflows : a # b => a[2] # b[2]
          /\ \A w \in DOMAIN workflows :
               \A x \in TaskIdsOf(workflows, w) : x <= task_counter)
    /\ [][ workflows' # workflows =>
             /\ last_call'.op \in {"plan_workflow", "execute_workflow"}
             /\ Cardinality(DOMAIN workflows') = Cardinality(DOMAIN workflows) + 1
             /\ DOMAIN workflows \subseteq DOMAIN workflows'
             /\ \A w \in DOMAIN workflows : workflows'[w] = workflows[w]
             /\ \A w \in DOMAIN workflows' \ DOMAIN workflows :
                   /\ workflows'[w] = task_order'
                   /\ DOMAIN tasks' = TaskIdsOf(workflows', w)
                   /\ \A x \in DOMAIN tasks' : x > task_counter ]_vars

\* three workflows are stored, two of them planned in the same second
C36_Witness ==
    /\ Cardinality(DOMAIN workflows) = 3
    /\ \E a, b \in DOMAIN workflows : a # b /\ a[1] = b[1]
    /\ last_call.op = "plan_workflow"
    /\ Cardinality(UNION { TaskIdsOf(workflows, w) : w \in DOMAIN workflows }) = task_counter

\* the tasks that the execution attempt dispatched and left in one of statuses
LeftIn(statuses) == { t \in executed : tasks[t].status \in statuses }

\* C37: when an execution attempt has finished, the task ids in result.results
\* are the tasks the attempt left COMPLETED, tasks_completed is their number,
\* tasks_failed is the number of tasks the attempt left FAILED, and no task
\* is reported in the result whose recorded status is not COMPLETED; stated
\* for a workflow that the orchestrator's planner holds.
C37_ResultMatchesStatuses ==
    (pc = "done" /\ attempts > 0 /\ orchestrator_knows) =>
        /\ DOMAIN result.results = LeftIn({COMPLETED})
        /\ result.tasks_completed = Cardinality(LeftIn({COMPLETED}))
        /\ result.tasks_failed = Cardinality(LeftIn({FAILED}))
        /\ \A t \in DOMAIN result.results : tasks[t].status = COMPLETED

\* C38: when _execute_workflow_tasks has returned success = true with status
\* "completed" for a workflow with tasks that the orchestrator's planner
\* holds, every task is COMPLETED and tasks_completed = tasks_total, whatever
\* executions, cancel_workflow and retry_failed_task calls came before.
C38_SuccessMeansAllCompleted ==
    (/\ pc = "done"
     /\ orchestrator_knows
     /\ DOMAIN tasks # {}
     /\ result.success
     /\ result.status = "completed") =>
        /\ \A t \in DOMAIN tasks : tasks[t].status = COMPLETED
        /\ result.tasks_completed = result.tasks_total

====
